---- MODULE Spec2Model ----
(***************************************************************************)
(* State-machine model of ProductionResolverDatabase                       *)
(* (src/src/rezplugins/command/production_resolver_lib.py): one session    *)
(* opened on the staging store, its three tables (context, package,        *)
(* history), the pending edit buffer and the committed image of the store. *)
(*                                                                         *)
(* Python None / SQL NULL is the value None below.  Wall-clock dates of    *)
(* history rows come from the external time source and are not modelled.   *)
(***************************************************************************)
EXTENDS Integers, Sequences, FiniteSets, TLC

\* ------------------------------------------------------------------------
\* Values
\* ------------------------------------------------------------------------

\* Python None and SQL NULL.
None == "<None>"

\* get_context_row_id / the rowid lookup of remove_package return None when no
\* row matches; every caller only tests the truth value and row ids start at 1.
NoRow == 0

\* HistoryEditOperation
INSTALL == 1
UNINSTALL == 2

\* getpass.getuser()
CurrentUser == "user"

\* Python truth value of a str | None (the tests `if step`, `if context_name`,
\* `x or ""`).
Truthy(x) == x # None /\ x # ""

\* ------------------------------------------------------------------------
\* Bounds of the model
\* ------------------------------------------------------------------------

\* Most rows of the package table in the listing specification.
ListMaxRows == 3
\* Most rows of the package table.
MaxRows == 2
\* Largest rowid handed out by the package table.
MaxRowId == 3
\* Most add_package/remove_package calls that return in the ledger specification.
MaxCalls == 3
\* Most rows of the package table, and largest rowid, in the save specification.
SaveMaxRows == 1
SaveMaxRowId == 2
\* Most records of the pending edit buffer.
MaxEdits == 2
\* Most rows of the history table.
MaxHistory == 2
\* Most rows of the package table and most backup files in the deployment
\* specification.
DeployMaxRows == 1
MaxBackups == 2
\* Most rows of the package table, largest rowid and most calls between two
\* saves in the round-trip specification.
RoundMaxRows == 3
RoundMaxRowId == 4
RoundMaxCalls == 2
\* Most levels handed to sanitize_context.
MaxLevels == 4
\* Most rows of the context table and of the package table in the context
\* specifications.
MaxContextRows == 3
CtxMaxRows == 2

\* Session specification: package rows, pending edits and history rows of a
\* store.
SessionMaxRows == 1
SessionMaxRowId == 1
SessionMaxEdits == 1
SessionMaxHistory == 1

\* Gateway specification: package rows of the store.
GatewayMaxRows == 2

\* Command specification: package rows, context rows, rowids and history
\* rows of a store.
ManageMaxRows == 2
ManageMaxContextRows == 2
ManageMaxRowId == 2
ManageMaxHistory == 2

\* ------------------------------------------------------------------------
\* Pure helpers
\* ------------------------------------------------------------------------

RECURSIVE SeqMax(_)
\* Largest element of a sequence of naturals, 0 when empty.
SeqMax(s) ==
    IF s = <<>> THEN 0
    ELSE LET m == SeqMax(Tail(s)) IN IF Head(s) > m THEN Head(s) ELSE m

RECURSIVE Flatten(_)
\* Concatenation of a sequence of sequences (list.extend in a loop).
Flatten(ss) == IF ss = <<>> THEN <<>> ELSE Head(ss) \o Flatten(Tail(ss))

\* Is x an element of sequence s.
InSeq(x, s) == \E i \in 1..Len(s) : s[i] = x

RECURSIVE DictFromKeys(_)
\* tuple(dict.fromkeys(s)): drops every later occurrence of an element.
DictFromKeys(s) ==
    IF s = <<>> THEN <<>>
    ELSE LET front == DictFromKeys(SubSeq(s, 1, Len(s) - 1))
             last  == s[Len(s)]
         IN IF InSeq(last, front) THEN front ELSE Append(front, last)

\* list.remove(x): the list without the first occurrence of x (x is in s).
ListRemove(s, x) ==
    LET i == CHOOSE k \in 1..Len(s) : s[k] = x /\ \A j \in 1..(k - 1) : s[j] # x
    IN SubSeq(s, 1, i - 1) \o SubSeq(s, i + 1, Len(s))

\* ",".join(parts)
RECURSIVE JoinComma(_)
JoinComma(parts) ==
    IF parts = <<>> THEN ""
    ELSE IF Len(parts) = 1 THEN parts[1]
    ELSE parts[1] \o "," \o JoinComma(Tail(parts))

\* sanitize_context raises ValueError above three levels.
sanitize_context_raises(contexts) == Len(contexts) > 3

\* Variant of sanitize_context: three None appended whatever the length.
sanitize_context_fixed_padding(contexts) == contexts \o <<None, None, None>>

\* sanitize_context: the levels right-padded with None to three positions.
sanitize_context(contexts) ==
    contexts \o [i \in 1..(3 - Len(contexts)) |-> None]

\* Variant of get_context_row_id: the last matching row is taken.
get_context_row_id_last_match(ctx, contexts) ==
    LET pc   == sanitize_context(contexts)
        rows == SelectSeq(ctx, LAMBDA r : /\ r.project = pc[1]
                                         /\ r.category = pc[2]
                                         /\ r.entity = pc[3])
    IN IF rows = <<>> THEN NoRow ELSE rows[Len(rows)].context_id

\* get_context_row_id: context_id of the first row whose three columns equal
\* the sanitized levels (NULL matching only NULL), NoRow when there is none.
get_context_row_id(ctx, contexts) ==
    LET pc   == sanitize_context(contexts)
        rows == SelectSeq(ctx, LAMBDA r : /\ r.project = pc[1]
                                         /\ r.category = pc[2]
                                         /\ r.entity = pc[3])
    IN IF rows = <<>> THEN NoRow ELSE rows[1].context_id

\* Variant of context_row_ids: the chain walked from the triple up to studio.
context_row_ids_narrowest_first(ctx, contexts) ==
    LET pc  == sanitize_context(contexts)
        ids == << get_context_row_id(ctx, <<pc[1], pc[2], pc[3]>>),
                  get_context_row_id(ctx, <<pc[1], pc[2], None>>),
                  get_context_row_id(ctx, <<pc[1], None, None>>),
                  get_context_row_id(ctx, <<None, None, None>>) >>
    IN DictFromKeys(SelectSeq(ids, LAMBDA v : v # NoRow))

\* The context ids of the ancestor chain studio, (p), (p, c), (p, c, e):
\* missing rows dropped, duplicates dropped keeping the first.
context_row_ids(ctx, contexts) ==
    LET pc  == sanitize_context(contexts)
        ids == << get_context_row_id(ctx, <<None, None, None>>),
                  get_context_row_id(ctx, <<pc[1], None, None>>),
                  get_context_row_id(ctx, <<pc[1], pc[2], None>>),
                  get_context_row_id(ctx, <<pc[1], pc[2], pc[3]>>) >>
    IN DictFromKeys(SelectSeq(ids, LAMBDA v : v # NoRow))

\* lookup_steps: the (step, software) pairs queried, in dict insertion order.
lookup_steps(step, software) ==
    << <<None, None>> >>
    \o (IF Truthy(step) THEN << <<step, None>> >> ELSE <<>>)
    \o (IF Truthy(software) THEN << <<None, software>> >> ELSE <<>>)
    \o (IF Truthy(step) /\ Truthy(software) THEN << <<step, software>> >> ELSE <<>>)

\* Variant of select_names: the WHERE clause without the step and software
\* conditions.
select_names_any_axis(pkg, context_id, pair) ==
    LET rows == SelectSeq(pkg, LAMBDA r : r.context_id = context_id)
    IN [i \in 1..Len(rows) |-> rows[i].name]

\* SELECT name FROM package WHERE context_id = ? AND step .. AND software ..
\* (rows come back in rowid order, the order of the table).
select_names(pkg, context_id, pair) ==
    LET rows == SelectSeq(pkg, LAMBDA r : /\ r.context_id = context_id
                                         /\ r.step = pair[1]
                                         /\ r.software = pair[2])
    IN [i \in 1..Len(rows) |-> rows[i].name]

\* The list `packages` get_package_list builds: context by context, lookup
\* by lookup.
collect_packages(ctx, pkg, contexts, step, software) ==
    LET ids   == context_row_ids(ctx, contexts)
        pairs == lookup_steps(step, software)
    IN Flatten([i \in 1..Len(ids) |->
           Flatten([j \in 1..Len(pairs) |-> select_names(pkg, ids[i], pairs[j])])])

\* Variant of get_package_list: the collected names returned as they are.
get_package_list_keep_duplicates(ctx, pkg, contexts, step, software) ==
    collect_packages(ctx, pkg, contexts, step, software)

\* get_package_list(validate=False): the collected names, de-duplicated.
get_package_list(ctx, pkg, contexts, step, software) ==
    DictFromKeys(collect_packages(ctx, pkg, contexts, step, software))

\* Variant of package_row_id: a None step or software adds no condition.
package_row_id_wildcard(pkg, context_id, name, step, software) ==
    LET rows == SelectSeq(pkg, LAMBDA r : /\ r.name = name
                                         /\ r.context_id = context_id
                                         /\ (step = None \/ r.step = step)
                                         /\ (software = None \/ r.software = software))
    IN IF rows = <<>> THEN NoRow ELSE rows[1].rowid

\* The rowid remove_package selects: first row with the exact name, context,
\* step and software (None matching only NULL), NoRow when there is none.
package_row_id(pkg, context_id, name, step, software) ==
    LET rows == SelectSeq(pkg, LAMBDA r : /\ r.name = name
                                         /\ r.context_id = context_id
                                         /\ r.step = step
                                         /\ r.software = software)
    IN IF rows = <<>> THEN NoRow ELSE rows[1].rowid

\* rowid SQLite gives the next row of the package table: largest rowid + 1.
next_rowid(pkg) == SeqMax([i \in 1..Len(pkg) |-> pkg[i].rowid]) + 1

\* context_id AUTOINCREMENT gives the next context row (rows are never deleted).
next_context_id(ctx) == SeqMax([i \in 1..Len(ctx) |-> ctx[i].context_id]) + 1

\* HistoryEdit(contexts, package_name, step, software, operation)
HistoryEdit(contexts, name, step, software, operation) ==
    [context |-> contexts, package_name |-> name, step |-> step,
     software |-> software, operation |-> operation]

\* Variant of history_row: the position in the comment counted from 0.
history_row_zero_based(edit_data, index, total, comment) ==
    [user         |-> CurrentUser,
     context      |-> JoinComma(SelectSeq(edit_data.context, Truthy)),
     package_name |-> edit_data.package_name,
     step         |-> IF Truthy(edit_data.step) THEN edit_data.step ELSE "",
     software     |-> IF Truthy(edit_data.software) THEN edit_data.software ELSE "",
     operation    |-> edit_data.operation,
     comment      |-> comment \o "(" \o ToString(index) \o "/"
                              \o ToString(total) \o ")"]

\* The history row save writes for the index-th (from 0) of total edits.
history_row(edit_data, index, total, comment) ==
    [user         |-> CurrentUser,
     context      |-> JoinComma(SelectSeq(edit_data.context, Truthy)),
     package_name |-> edit_data.package_name,
     step         |-> IF Truthy(edit_data.step) THEN edit_data.step ELSE "",
     software     |-> IF Truthy(edit_data.software) THEN edit_data.software ELSE "",
     operation    |-> edit_data.operation,
     comment      |-> comment \o "(" \o ToString(index + 1) \o "/"
                              \o ToString(total) \o ")"]

\* The rows save(store_history) appends to the history table.
history_rows(eds, store_history, comment) ==
    IF store_history
    THEN [i \in 1..Len(eds) |-> history_row(eds[i], i - 1, Len(eds), comment)]
    ELSE <<>>

\* ------------------------------------------------------------------------
\* State
\* ------------------------------------------------------------------------

VARIABLES
    tables,     \* the three tables exist in the connection's view
    context,    \* context table: rows [context_id, project, category, entity]
    package,    \* package table: rows [rowid, context_id, name, step, software]
    history,    \* history table, in rowid order
    edits,      \* self.__edits, the pending edit buffer
    committed,  \* the store as of the last connection.commit()
    ret,        \* the last call and its outcome: [op, args, exc, value]
    gateway,    \* the validate_context calls of the last call: <<[packages, outcome]>> or <<>>
    calls,      \* add/remove calls that returned since the last save (history variable)
    load_production,  \* self.__load_production, the mode of the session
    in_transaction,   \* connection.in_transaction: a write transaction is open
    files,            \* the store files on disk: [production, staging]
    history_folder,   \* the backup files of history_folder_path, oldest first
    keep_history,     \* the keep_history setting of the configuration
    command           \* the command line being run and the answers it is given

vars == <<tables, context, package, history, edits, committed, ret, gateway, calls,
          load_production, in_transaction, files, history_folder, keep_history,
          command>>

\* The variables outside the session's connection that only deploy or a new
\* session changes.
deployment == <<load_production, history_folder, keep_history, command>>

\* A store file that does not exist or holds no table (sqlite3.connect makes
\* no difference between the two).
EmptyStore == [tables |-> FALSE, context |-> <<>>, package |-> <<>>,
               history |-> <<>>]

\* The file the session's connection is opened on (__enter__).
Connected == IF load_production THEN "production" ELSE "staging"

store == [tables |-> tables, context |-> context, package |-> package,
          history |-> history]

Result(op, args, exc, value) ==
    [op |-> op, args |-> args, exc |-> exc, value |-> value]

\* A call that raises: nothing but the outcome changes.
Raise(op, args, exc, consulted) ==
    /\ ret' = Result(op, args, exc, None)
    /\ gateway' = consulted
    /\ UNCHANGED <<tables, context, package, history, edits, committed, calls,
                   in_transaction, files, deployment>>

\* A command line of the plugin with the answers typed at its prompts ("" for
\* a prompt that is not shown): the options of setup_parser, step and
\* software left out.
CommandLine(name, contexts, initialize, list_packages, uninstall, install, deploy, force, staging, answers) ==
    [name |-> name, context |-> contexts, initialize |-> initialize,
     list_packages |-> list_packages, uninstall |-> uninstall,
     install |-> install, deploy |-> deploy, force |-> force,
     staging |-> staging, answers |-> answers]

\* The answers of a run in which no prompt is shown.
NoAnswers == [initialize |-> "", uninstall |-> "", install |-> "", deploy |-> ""]

\* No command is running: the session was opened by a caller of the library.
NoCommand ==
    CommandLine("none", <<>>, FALSE, FALSE, <<>>, <<>>, FALSE, FALSE, FALSE,
                NoAnswers)

\* __init__(load_production=False) and __enter__ with store files that do not
\* exist yet and keep_history = True.
Init ==
    /\ tables = FALSE
    /\ context = <<>>
    /\ package = <<>>
    /\ history = <<>>
    /\ edits = <<>>
    /\ committed = [tables |-> FALSE, context |-> <<>>, package |-> <<>>,
                    history |-> <<>>]
    /\ ret = Result("__enter__", <<>>, "ok", None)
    /\ gateway = <<>>
    /\ calls = <<>>
    /\ load_production = FALSE
    /\ in_transaction = FALSE
    /\ files = [production |-> EmptyStore, staging |-> EmptyStore]
    /\ history_folder = <<>>
    /\ keep_history = "True"
    /\ command = NoCommand

\* ------------------------------------------------------------------------
\* The validation gateway (validate_context): the external resolver answers
\* solved, not solved without an exception, or raises a RezError.
\* ------------------------------------------------------------------------

GatewayOutcomes == {"Solved", "NotSolved", "RezError"}

\* validate_context: (status, message) for a resolver outcome.
validate_context(outcome) ==
    IF outcome = "RezError" THEN <<FALSE, "RezError">>
    ELSE <<outcome = "Solved", None>>

\* `raise message` after a failed validation: the RezError, or TypeError when
\* the message is None.
raise_message(message) == IF message = None THEN "TypeError" ELSE message

\* The Python class of the exception a call of the library ends with: the
\* errors the library raises itself are ValueError, `raise message` gives the
\* RezError or a TypeError, a statement on a missing table
\* sqlite3.OperationalError.
exception_class(exc) ==
    IF exc \in {"InvalidContext", "UnknownContext", "UnknownPackage", "NotInList",
                "NotValidated"}
    THEN "ValueError"
    ELSE exc

\* The exception classes the manage command catches around remove_package and
\* add_package; it prints the error and returns.
ManageCatches == {"ValueError"}

\* ------------------------------------------------------------------------
\* Operations
\* ------------------------------------------------------------------------

\* Variant of save: the buffer is cleared inside the store_history branch.
Save_keeps_unflushed(store_history, comment) ==
    /\ history' = history \o history_rows(edits, store_history, comment)
    /\ edits' = (IF store_history THEN <<>> ELSE edits)
    /\ committed' = [tables |-> tables, context |-> context,
                     package |-> package, history |-> history']
    /\ ret' = Result("save", <<store_history, comment>>, "ok", None)
    /\ gateway' = <<>>
    /\ calls' = <<>>
    /\ in_transaction' = FALSE
    /\ files' = [files EXCEPT ![Connected] = committed']
    /\ UNCHANGED <<tables, context, package, deployment>>

\* Variant of save: the history table is rewritten with the flushed batch.
Save_rewrites_history(store_history, comment) ==
    /\ history' = history_rows(edits, store_history, comment)
    /\ edits' = <<>>
    /\ committed' = [tables |-> tables, context |-> context,
                     package |-> package, history |-> history']
    /\ ret' = Result("save", <<store_history, comment>>, "ok", None)
    /\ gateway' = <<>>
    /\ calls' = <<>>
    /\ in_transaction' = FALSE
    /\ files' = [files EXCEPT ![Connected] = committed']
    /\ UNCHANGED <<tables, context, package, deployment>>

\* save(store_history, comment)
Save(store_history, comment) ==
    /\ history' = history \o history_rows(edits, store_history, comment)
    /\ edits' = <<>>
    /\ committed' = [tables |-> tables, context |-> context,
                     package |-> package, history |-> history']
    /\ ret' = Result("save", <<store_history, comment>>, "ok", None)
    /\ gateway' = <<>>
    /\ calls' = <<>>
    /\ in_transaction' = FALSE
    /\ files' = [files EXCEPT ![Connected] = committed']
    /\ UNCHANGED <<tables, context, package, deployment>>

\* initialize(): CREATE TABLE IF NOT EXISTS x 3, INSERT the all-NULL context
\* row, then save().
Initialize ==
    /\ tables' = TRUE
    /\ context' = Append(context, [context_id |-> next_context_id(context),
                                   project |-> None, category |-> None,
                                   entity |-> None])
    /\ history' = history \o history_rows(edits, TRUE, "")
    /\ edits' = <<>>
    /\ committed' = [tables |-> TRUE, context |-> context',
                     package |-> package, history |-> history']
    /\ ret' = Result("initialize", <<>>, "ok", None)
    /\ gateway' = <<>>
    /\ calls' = <<>>
    /\ in_transaction' = FALSE
    /\ files' = [files EXCEPT ![Connected] = committed']
    /\ UNCHANGED <<package, deployment>>

\* The context table after INSERT INTO context of the sanitized levels.
insert_context(ctx, contexts) ==
    LET pc == sanitize_context(contexts)
    IN Append(ctx, [context_id |-> next_context_id(ctx), project |-> pc[1],
                    category |-> pc[2], entity |-> pc[3]])

\* insert_context(*contexts)
InsertContext(contexts) ==
    IF sanitize_context_raises(contexts)
    THEN Raise("insert_context", <<contexts>>, "InvalidContext", <<>>)
    ELSE IF ~tables THEN Raise("insert_context", <<contexts>>, "OperationalError", <<>>)
    ELSE /\ context' = insert_context(context, contexts)
         /\ ret' = Result("insert_context", <<contexts>>, "ok", next_context_id(context))
         /\ gateway' = <<>>
         /\ in_transaction' = TRUE
         /\ UNCHANGED <<tables, package, history, edits, committed, calls, files,
                        deployment>>

\* Variant of add_package_exc: the status of the validation is not looked at.
add_package_exc_unchecked(contexts, validate, outcome) ==
    IF sanitize_context_raises(contexts) THEN "InvalidContext"
    ELSE IF ~tables THEN "OperationalError"
    ELSE "ok"

\* How add_package ends: "ok" or the exception it raises.  With validate the
\* list is computed first (sanitize_context, then the context queries), then
\* the gateway is asked; without it get_context_row_id is the first statement.
add_package_exc(contexts, validate, outcome) ==
    IF sanitize_context_raises(contexts) THEN "InvalidContext"
    ELSE IF ~tables THEN "OperationalError"
    ELSE IF validate /\ ~validate_context(outcome)[1]
         THEN raise_message(validate_context(outcome)[2])
    ELSE "ok"

\* Variant of add_package_context: the context row is inserted on every call.
add_package_context_always_inserts(ctx, contexts) ==
    insert_context(ctx, contexts)

\* The context table add_package leaves: the row of the triple is inserted
\* when get_context_row_id found none.
add_package_context(ctx, contexts) ==
    IF get_context_row_id(ctx, contexts) = NoRow
    THEN insert_context(ctx, contexts)
    ELSE ctx

\* Variant of add_package_rows: the context id is the one found before the
\* insertion of the missing context row.
add_package_rows_stale_context(ctx, pkg, contexts, name, step, software) ==
    Append(pkg, [rowid      |-> next_rowid(pkg),
                 context_id |-> get_context_row_id(ctx, contexts),
                 name       |-> name,
                 step       |-> step,
                 software   |-> software])

\* The package table after add_package's INSERT INTO package.
add_package_rows(ctx, pkg, contexts, name, step, software) ==
    Append(pkg, [rowid      |-> next_rowid(pkg),
                 context_id |-> get_context_row_id(add_package_context(ctx, contexts),
                                                   contexts),
                 name       |-> name,
                 step       |-> step,
                 software   |-> software])

\* The pending buffer after add_package's append.
add_package_edits(eds, contexts, name, step, software) ==
    Append(eds, HistoryEdit(contexts, name, step, software, INSTALL))

\* The validate_context call add_package makes: none without validate or when
\* the list cannot be computed, else the current list plus the new name.
add_package_gateway(contexts, name, step, software, validate, outcome) ==
    IF validate /\ ~sanitize_context_raises(contexts) /\ tables
    THEN << [packages |-> Append(get_package_list(context, package, contexts,
                                                  step, software), name),
             outcome  |-> outcome] >>
    ELSE <<>>

\* add_package(contexts, package_name, step, software, validate)
AddPackage(contexts, name, step, software, validate, outcome) ==
    LET exc  == add_package_exc(contexts, validate, outcome)
        args == <<contexts, name, step, software, validate>>
        gw   == add_package_gateway(contexts, name, step, software, validate, outcome)
    IN IF exc # "ok" THEN Raise("add_package", args, exc, gw)
       ELSE /\ context' = add_package_context(context, contexts)
            /\ package' = add_package_rows(context, package, contexts, name,
                                           step, software)
            /\ edits' = add_package_edits(edits, contexts, name, step, software)
            /\ ret' = Result("add_package", args, "ok", next_rowid(package))
            /\ gateway' = gw
            /\ calls' = Append(calls, [op |-> "add_package", contexts |-> contexts,
                                       name |-> name, step |-> step,
                                       software |-> software])
            /\ in_transaction' = TRUE
            /\ UNCHANGED <<tables, history, committed, files, deployment>>

\* How remove_package ends: "ok" or the exception it raises, in the order of
\* its checks.
remove_package_exc(contexts, name, step, software, validate, outcome) ==
    IF sanitize_context_raises(contexts) THEN "InvalidContext"
    ELSE IF ~tables THEN "OperationalError"
    ELSE IF get_context_row_id(context, contexts) = NoRow THEN "UnknownContext"
    ELSE IF package_row_id(package, get_context_row_id(context, contexts),
                           name, step, software) = NoRow THEN "UnknownPackage"
    ELSE IF validate
            /\ ~InSeq(name, get_package_list(context, package, contexts, step, software))
         THEN "NotInList"
    ELSE IF validate /\ ~validate_context(outcome)[1]
         THEN raise_message(validate_context(outcome)[2])
    ELSE "ok"

\* Variant of delete_row: DELETE by the name of the selected row.
delete_row_by_name(pkg, rowid) ==
    SelectSeq(pkg, LAMBDA r :
        \A i \in 1..Len(pkg) : pkg[i].rowid = rowid => r.name # pkg[i].name)

\* The package table after DELETE FROM package WHERE rowid = ?
delete_row(pkg, rowid) == SelectSeq(pkg, LAMBDA r : r.rowid # rowid)

\* Variant of remove_package_edits: the record tagged INSTALL.
remove_package_edits_as_install(eds, contexts, name, step, software) ==
    Append(eds, HistoryEdit(contexts, name, step, software, INSTALL))

\* The pending buffer after remove_package's append.
remove_package_edits(eds, contexts, name, step, software) ==
    Append(eds, HistoryEdit(contexts, name, step, software, UNINSTALL))

\* Variant of remove_package_gateway: the list is validated before the
\* context row and the package row are looked up.
remove_package_gateway_first(contexts, name, step, software, validate, outcome) ==
    IF validate /\ ~sanitize_context_raises(contexts) /\ tables
    THEN << [packages |-> SelectSeq(get_package_list(context, package, contexts,
                                                     step, software),
                                    LAMBDA n : n # name),
             outcome  |-> outcome] >>
    ELSE <<>>

\* The validate_context call remove_package makes: only once the context row
\* and the package row were found and list.remove found the name; the current
\* list without the first occurrence of the name.
remove_package_gateway(contexts, name, step, software, validate, outcome) ==
    IF /\ validate
       /\ remove_package_exc(contexts, name, step, software, FALSE, outcome) = "ok"
       /\ InSeq(name, get_package_list(context, package, contexts, step, software))
    THEN << [packages |-> ListRemove(get_package_list(context, package, contexts,
                                                      step, software), name),
             outcome  |-> outcome] >>
    ELSE <<>>

\* remove_package(contexts, package_name, step, software, validate)
RemovePackage(contexts, name, step, software, validate, outcome) ==
    LET exc  == remove_package_exc(contexts, name, step, software, validate, outcome)
        args == <<contexts, name, step, software, validate>>
        gw   == remove_package_gateway(contexts, name, step, software, validate,
                                       outcome)
    IN IF exc # "ok" THEN Raise("remove_package", args, exc, gw)
       ELSE /\ package' = delete_row(package,
                              package_row_id(package,
                                             get_context_row_id(context, contexts),
                                             name, step, software))
            /\ edits' = remove_package_edits(edits, contexts, name, step, software)
            /\ ret' = Result("remove_package", args, "ok", None)
            /\ gateway' = gw
            /\ calls' = Append(calls, [op |-> "remove_package", contexts |-> contexts,
                                       name |-> name, step |-> step,
                                       software |-> software])
            /\ in_transaction' = TRUE
            /\ UNCHANGED <<tables, context, history, committed, files, deployment>>

\* The outcomes of the external resolver: those of GatewayOutcomes, or an
\* exception that is not a RezError.
ResolverOutcomes == GatewayOutcomes \cup {"Exception"}

\* validate_context lets an exception propagate: its except clause names
\* RezError only.
validate_context_raises(outcome) == outcome = "Exception"

\* validate_context(*packages), a static method; the outcome of the resolver
\* is kept with the call.
ValidateContext(packages, outcome) ==
    /\ ret' = (IF validate_context_raises(outcome)
               THEN Result("validate_context", <<packages>>, "Exception", None)
               ELSE Result("validate_context", <<packages>>, "ok",
                           validate_context(outcome)))
    /\ gateway' = << [packages |-> packages, outcome |-> outcome] >>
    /\ UNCHANGED <<tables, context, package, history, edits, committed, calls,
                   in_transaction, files, deployment>>

\* str(message) inside the f-string of get_package_list's ValueError.
format_message(message) == IF message = None THEN "None" ELSE message

\* Variant of get_package_list_exc: the status of the validation is not
\* looked at.
get_package_list_exc_unchecked(contexts, validate, outcome) ==
    IF sanitize_context_raises(contexts) THEN "InvalidContext"
    ELSE IF ~tables THEN "OperationalError"
    ELSE "ok"

\* How get_package_list ends: "ok" or the exception it raises.
get_package_list_exc(contexts, validate, outcome) ==
    IF sanitize_context_raises(contexts) THEN "InvalidContext"
    ELSE IF ~tables THEN "OperationalError"
    ELSE IF validate /\ validate_context_raises(outcome) THEN "Exception"
    ELSE IF validate /\ ~validate_context(outcome)[1] THEN "NotValidated"
    ELSE "ok"

\* The validate_context call get_package_list makes: none without validate
\* or when the list cannot be computed, else the list `packages` as collected.
get_package_list_gateway(contexts, step, software, validate, outcome) ==
    IF validate /\ ~sanitize_context_raises(contexts) /\ tables
    THEN << [packages |-> collect_packages(context, package, contexts, step,
                                           software),
             outcome  |-> outcome] >>
    ELSE <<>>

\* What get_package_list hands back: the de-duplicated tuple, or the text of
\* its ValueError.
get_package_list_value(contexts, step, software, validate, outcome) ==
    LET exc == get_package_list_exc(contexts, validate, outcome)
    IN IF exc = "ok"
       THEN get_package_list(context, package, contexts, step, software)
       ELSE IF exc = "NotValidated"
       THEN "Package list can't be validated: "
                \o format_message(validate_context(outcome)[2])
       ELSE None

\* get_package_list(*contexts, step, software, validate): SELECT statements
\* only, the store and the buffer stay as they are.
GetPackageList(contexts, step, software, validate, outcome) ==
    /\ ret' = Result("get_package_list", <<contexts, step, software, validate>>,
                     get_package_list_exc(contexts, validate, outcome),
                     get_package_list_value(contexts, step, software, validate,
                                            outcome))
    /\ gateway' = get_package_list_gateway(contexts, step, software, validate,
                                           outcome)
    /\ UNCHANGED <<tables, context, package, history, edits, committed, calls,
                   in_transaction, files, deployment>>

\* The values the keep_history setting takes, written as Python literals:
\* the booleans of the tests and strings in the style of rezconfig.py.
ConfigValues == {"True", "False", "'true'", "'false'"}

\* bool(value) of a setting: False and the empty string are false, every
\* other string is true.
bool(value) == value \notin {"False", "''"}

\* What the environment does to the backup step: it succeeds, os.makedirs
\* cannot create the history folder (its path lies under a regular file), or
\* the backup file cannot be opened in the folder.
BackupOutcomes == {"ok", "makedirs_fails", "fails"}

\* The exception that leaves the backup step of deploy, "ok" when none does:
\* os.makedirs is only called when the history folder does not exist yet and
\* raises NotADirectoryError (an OSError); sqlite3.connect of the backup file
\* raises sqlite3.OperationalError.
deploy_backup_exc(backup) ==
    IF ~bool(keep_history) THEN "ok"
    ELSE IF backup = "makedirs_fails" /\ history_folder = <<>>
    THEN "NotADirectoryError"
    ELSE IF backup = "fails" THEN "OperationalError"
    ELSE "ok"

\* The session is inside a deploy whose copy to production waits for the
\* session's own write transaction to end (Connection.backup sleeps and
\* retries for as long as the source connection is in a write transaction).
Blocked == ret.op = "deploy" /\ ret.exc = "blocked"

\* Variant of deploy_exc: the mode of the session is not looked at.
deploy_exc_any_mode(backup) ==
    IF deploy_backup_exc(backup) # "ok" THEN deploy_backup_exc(backup)
    ELSE IF in_transaction THEN "blocked"
    ELSE "ok"

\* Variant of deploy_exc: a failure of the backup step is swallowed.
deploy_exc_ignores_backup_failure(backup) ==
    IF load_production THEN "RuntimeError"
    ELSE IF in_transaction THEN "blocked"
    ELSE "ok"

\* How deploy ends: "ok", the exception it raises, or "blocked" when it does
\* not return.
deploy_exc(backup) ==
    IF load_production THEN "RuntimeError"
    ELSE IF deploy_backup_exc(backup) # "ok" THEN deploy_backup_exc(backup)
    ELSE IF in_transaction THEN "blocked"
    ELSE "ok"

\* Variant of deploy_backup: the backup is taken from the session's
\* connection.
deploy_backup_of_session(folder, production_store) ==
    IF bool(keep_history) THEN Append(folder, store) ELSE folder

\* The history folder after the backup step: with keep_history a new file,
\* named by the current time, receives a copy of the production store.
deploy_backup(folder, production_store) ==
    IF bool(keep_history) THEN Append(folder, production_store) ELSE folder

\* Variant of deploy_promote: the copy made in the other direction.
deploy_promote_reversed(production_store, source) == production_store

\* The production store after self.connection.backup(production_db): what the
\* session's connection holds.
deploy_promote(production_store, source) == source

\* Variant of Deploy: the session is committed and its pending edits dropped
\* before the copy.
Deploy_saves_first(backup) ==
    IF deploy_exc(backup) \notin {"ok", "blocked"}
    THEN Raise("deploy", <<backup>>, deploy_exc(backup), <<>>)
    ELSE /\ history_folder' = deploy_backup(history_folder, files.production)
         /\ files' = [files EXCEPT !.staging = store,
                                    !.production = deploy_promote(files.production, store)]
         /\ committed' = store
         /\ edits' = <<>>
         /\ in_transaction' = FALSE
         /\ ret' = Result("deploy", <<backup>>, "ok", None)
         /\ gateway' = <<>>
         /\ UNCHANGED <<tables, context, package, history, calls,
                        load_production, keep_history, command>>

\* deploy(); the outcome of the environment for its backup step is kept with
\* the call.
Deploy(backup) ==
    LET exc == deploy_exc(backup)
    IN IF exc \notin {"ok", "blocked"}
       THEN Raise("deploy", <<backup>>, exc, <<>>)
       ELSE /\ history_folder' = deploy_backup(history_folder, files.production)
            /\ files' = (IF exc = "ok"
                         THEN [files EXCEPT
                                 !.production = deploy_promote(files.production, store)]
                         ELSE files)
            /\ ret' = Result("deploy", <<backup>>, exc, None)
            /\ gateway' = <<>>
            /\ UNCHANGED <<tables, context, package, history, edits, committed,
                           calls, load_production, in_transaction, keep_history,
                           command>>

\* Variant of the change of session: __exit__ commits before it closes.
Enter_commits_on_exit(load) ==
    LET written == [files EXCEPT ![Connected] = store]
        opened  == written[IF load THEN "production" ELSE "staging"]
    IN /\ load_production' = load
       /\ tables' = opened.tables
       /\ context' = opened.context
       /\ package' = opened.package
       /\ history' = opened.history
       /\ committed' = opened
       /\ edits' = <<>>
       /\ calls' = <<>>
       /\ in_transaction' = FALSE
       /\ ret' = Result("__enter__", <<load>>, "ok", None)
       /\ gateway' = <<>>
       /\ files' = written
       /\ UNCHANGED <<history_folder, keep_history, command>>

\* __exit__ of the session (or the end of its process), then __init__ and
\* __enter__ of a new one: the connection is closed without a commit and a
\* new one is opened on the file of the mode.
open_session(load) ==
    LET opened == files[IF load THEN "production" ELSE "staging"]
    IN /\ load_production' = load
       /\ tables' = opened.tables
       /\ context' = opened.context
       /\ package' = opened.package
       /\ history' = opened.history
       /\ committed' = opened
       /\ edits' = <<>>
       /\ calls' = <<>>
       /\ in_transaction' = FALSE
       /\ ret' = Result("__enter__", <<load>>, "ok", None)
       /\ gateway' = <<>>
       /\ UNCHANGED <<files, history_folder, keep_history>>

\* A caller of the library ends its session and opens a new one.
Enter(load) == open_session(load) /\ UNCHANGED command

\* Variant of GetContextRowId: a context that has no row is given one.
GetContextRowId_creates(contexts) ==
    IF sanitize_context_raises(contexts)
    THEN Raise("get_context_row_id", <<contexts>>, "InvalidContext", <<>>)
    ELSE IF ~tables
    THEN Raise("get_context_row_id", <<contexts>>, "OperationalError", <<>>)
    ELSE /\ context' = (IF get_context_row_id(context, contexts) = NoRow
                        THEN insert_context(context, contexts)
                        ELSE context)
         /\ ret' = Result("get_context_row_id", <<contexts>>, "ok",
                          get_context_row_id(context', contexts))
         /\ gateway' = <<>>
         /\ in_transaction' =
               (in_transaction \/ get_context_row_id(context, contexts) = NoRow)
         /\ UNCHANGED <<tables, package, history, edits, committed, calls,
                        files, deployment>>

\* get_context_row_id(*contexts): a SELECT, only the outcome changes.
GetContextRowId(contexts) ==
    IF sanitize_context_raises(contexts)
    THEN Raise("get_context_row_id", <<contexts>>, "InvalidContext", <<>>)
    ELSE IF ~tables
    THEN Raise("get_context_row_id", <<contexts>>, "OperationalError", <<>>)
    ELSE /\ ret' = Result("get_context_row_id", <<contexts>>, "ok",
                          get_context_row_id(context, contexts))
         /\ gateway' = <<>>
         /\ UNCHANGED <<tables, context, package, history, edits, committed,
                        calls, in_transaction, files, deployment>>

\* exists(): whether the file of the session's store exists; inside a
\* session it does, sqlite3.connect has created it.
Exists ==
    /\ ret' = Result("exists", <<>>, "ok", TRUE)
    /\ gateway' = <<>>
    /\ UNCHANGED <<tables, context, package, history, edits, committed, calls,
                   in_transaction, files, deployment>>

\* ------------------------------------------------------------------------
\* The commands manage and resolve: the library calls they make, one after
\* the other, inside one session.  The call that comes next is a function of
\* the command line, the answers and the outcome of the call before.
\* ------------------------------------------------------------------------

\* A prompt is approved by the answers y and Y only.
approved(answer) == answer \in {"y", "Y"}

\* Variant of _confirm_action: every answer approves.
confirm_action_any(answer, force_flag) == TRUE

\* _confirm_action(action, packages, force_flag)
confirm_action(answer, force_flag) == force_flag \/ approved(answer)

\* The position a loop of the command has reached in its list: the number
\* of calls of op that returned in the run (done).
PositionOf(done, op) == Cardinality({i \in 1..Len(done) : done[i].op = op})

CallOf(op, name) == [op |-> op, name |-> name]

\* The end of the command function: return, or an exception that leaves it.
Return == CallOf("return", None)

\* manage: db.save(), then the deploy block.
manage_after_batch == CallOf("save", None)

\* manage: the install block.
manage_install(cmd) ==
    IF cmd.install = <<>> THEN manage_after_batch
    ELSE IF confirm_action(cmd.answers.install, cmd.force)
    THEN CallOf("add_package", cmd.install[1])
    ELSE Return

\* Variant of manage_uninstall: the uninstall block is skipped.
manage_uninstall_skipped(cmd) == manage_install(cmd)

\* manage: the uninstall block, which comes before the install block.
manage_uninstall(cmd) ==
    IF cmd.uninstall = <<>> THEN manage_install(cmd)
    ELSE IF confirm_action(cmd.answers.uninstall, cmd.force)
    THEN CallOf("remove_package", cmd.uninstall[1])
    ELSE Return

\* manage: what follows the context lookup, the listing or the batch.
manage_batch(cmd) ==
    IF cmd.list_packages THEN CallOf("get_package_list", None)
    ELSE manage_uninstall(cmd)

\* Variant of manage_deploy: every answer but n and N approves.
manage_deploy_lenient(cmd) ==
    IF cmd.deploy /\ (cmd.force \/ cmd.answers.deploy \notin {"n", "N"})
    THEN CallOf("deploy", None)
    ELSE Return

\* manage: the deploy block after save.
manage_deploy(cmd) ==
    IF cmd.deploy /\ confirm_action(cmd.answers.deploy, cmd.force)
    THEN CallOf("deploy", None)
    ELSE Return

\* The library call the manage command makes after the call r.
manage_next(cmd, r, done) ==
    IF r.exc # "ok" THEN Return
    ELSE IF r.op = "__enter__"
    THEN IF cmd.initialize
         THEN IF approved(cmd.answers.initialize)
              THEN CallOf("initialize", None) ELSE Return
         ELSE CallOf("sanitize_context", None)
    ELSE IF r.op = "sanitize_context" THEN CallOf("get_context_row_id", None)
    ELSE IF r.op = "get_context_row_id"
    THEN IF r.value = NoRow THEN CallOf("insert_context", None)
         ELSE manage_batch(cmd)
    ELSE IF r.op = "insert_context" THEN manage_batch(cmd)
    ELSE IF r.op = "remove_package"
    THEN IF PositionOf(done, "remove_package") < Len(cmd.uninstall)
         THEN CallOf("remove_package",
                     cmd.uninstall[PositionOf(done, "remove_package") + 1])
         ELSE manage_install(cmd)
    ELSE IF r.op = "add_package"
    THEN IF PositionOf(done, "add_package") < Len(cmd.install)
         THEN CallOf("add_package",
                     cmd.install[PositionOf(done, "add_package") + 1])
         ELSE manage_after_batch
    ELSE IF r.op = "save" THEN manage_deploy(cmd)
    ELSE Return

\* The library call the resolve command makes after the call r; the listing
\* follows exists() whatever it answered.
resolve_next(cmd, r) ==
    IF r.exc # "ok" THEN Return
    ELSE IF r.op = "__enter__" THEN CallOf("exists", None)
    ELSE IF r.op = "exists" THEN CallOf("sanitize_context", None)
    ELSE IF r.op = "sanitize_context" THEN CallOf("get_package_list", None)
    ELSE Return

\* The call the running command makes next.
next_call ==
    IF command.name = "manage" THEN manage_next(command, ret, calls)
    ELSE IF command.name = "resolve" THEN resolve_next(command, ret)
    ELSE Return

\* The contexts the command hands to the library: sanitize_context(*opts.context).
command_contexts == sanitize_context(command.context)

\* A command is started once the one before has ended: manage opens a staging
\* session, resolve a production session unless --staging is given.
StartCommand(cmd) ==
    /\ next_call = Return
    /\ open_session(cmd.name = "resolve" /\ ~cmd.staging)
    /\ command' = cmd

\* ------------------------------------------------------------------------
\* Ledger specification: one staging session, initialized once, calling
\* add_package and remove_package with and without validation.
\* ------------------------------------------------------------------------

Contexts == {<<>>, <<"proj", "cat">>}
Names == {"pkgA"}
AxisPairs == {<<None, None>>, <<"stepA", None>>, <<None, "softA">>}

\* The rowids of the package table stay within the bound.
RowIdsWithin(pkg, bound) == \A i \in 1..Len(pkg) : pkg[i].rowid <= bound

NextLedger ==
    \/ ~tables /\ Initialize
    \/ \E c \in Contexts, n \in Names, p \in AxisPairs, v \in BOOLEAN,
          o \in GatewayOutcomes :
          /\ v \/ o = "Solved"
          /\ AddPackage(c, n, p[1], p[2], v, o)
          /\ Len(package') <= MaxRows
          /\ RowIdsWithin(package', MaxRowId)
          /\ Len(edits') <= MaxCalls
    \/ \E c \in Contexts, n \in Names, p \in AxisPairs, v \in BOOLEAN,
          o \in GatewayOutcomes :
          /\ v \/ o = "Solved"
          /\ RemovePackage(c, n, p[1], p[2], v, o)
          /\ Len(edits') <= MaxCalls

SpecLedger == Init /\ [][NextLedger]_vars

\* ------------------------------------------------------------------------
\* Save specification: one staging session, initialized once, calling
\* add_package and remove_package without validation, and save with and
\* without the flush to the history table.
\* ------------------------------------------------------------------------

SaveContexts == {<<"proj", "cat">>, <<"proj", "">>}
SaveNames == {"pkgA"}
SavePairs == {<<"stepA", None>>}
Comments == {"fix"}

NextSave ==
    \/ ~tables /\ Initialize
    \/ \E c \in SaveContexts, n \in SaveNames, p \in SavePairs :
          /\ AddPackage(c, n, p[1], p[2], FALSE, "Solved")
          /\ Len(package') <= SaveMaxRows
          /\ RowIdsWithin(package', SaveMaxRowId)
          /\ Len(edits') <= MaxEdits
    \/ \E c \in SaveContexts, n \in SaveNames, p \in SavePairs :
          /\ RemovePackage(c, n, p[1], p[2], FALSE, "Solved")
          /\ Len(edits') <= MaxEdits
    \/ \E h \in BOOLEAN, cm \in Comments :
          /\ Save(h, cm)
          /\ Len(history') <= MaxHistory

SpecSave == Init /\ [][NextSave]_vars

\* ------------------------------------------------------------------------
\* Deployment specification: sessions of either mode, one after the other,
\* on the same two store files; each initializes its store if it has no
\* tables, adds a package at studio scope, saves and deploys.
\* ------------------------------------------------------------------------

DeployComments == {""}

InitDeploy ==
    /\ tables = FALSE
    /\ context = <<>>
    /\ package = <<>>
    /\ history = <<>>
    /\ edits = <<>>
    /\ committed = EmptyStore
    /\ ret = Result("__enter__", <<>>, "ok", None)
    /\ gateway = <<>>
    /\ calls = <<>>
    /\ load_production \in BOOLEAN
    /\ in_transaction = FALSE
    /\ files = [production |-> EmptyStore, staging |-> EmptyStore]
    /\ history_folder = <<>>
    /\ keep_history \in ConfigValues
    /\ command = NoCommand

NextDeploy ==
    \/ \E load \in BOOLEAN : Enter(load)
    \/ ~Blocked /\ ~tables /\ Initialize
    \/ /\ ~Blocked
       /\ AddPackage(<<>>, "pkgA", None, None, FALSE, "Solved")
       /\ Len(package') <= DeployMaxRows
    \/ ~Blocked /\ \E cm \in DeployComments : Save(TRUE, cm)
    \/ /\ ~Blocked
       /\ \E b \in BackupOutcomes : Deploy(b)
       /\ Len(history_folder') <= MaxBackups

SpecDeploy == InitDeploy /\ [][NextDeploy]_vars

\* ------------------------------------------------------------------------
\* Round-trip specification: one staging session, initialized once, adding
\* and removing two packages at studio scope without validation and saving
\* without the flush.
\* ------------------------------------------------------------------------

RoundNames == {"pkgA", "pkgB"}

NextRound ==
    \/ ~tables /\ Initialize
    \/ \E n \in RoundNames :
          /\ AddPackage(<<>>, n, None, None, FALSE, "Solved")
          /\ Len(package') <= RoundMaxRows
          /\ RowIdsWithin(package', RoundMaxRowId)
          /\ Len(calls') <= RoundMaxCalls
    \/ \E n \in RoundNames :
          /\ RemovePackage(<<>>, n, None, None, FALSE, "Solved")
          /\ Len(calls') <= RoundMaxCalls
    \/ Save(FALSE, "")

SpecRound == Init /\ [][NextRound]_vars

\* ------------------------------------------------------------------------
\* Sanitize specification: sanitize_context called on up to MaxLevels levels,
\* then on its own result.
\* ------------------------------------------------------------------------

LevelValues == {None, "", "proj", "cat"}

\* The argument lists of sanitize_context.
LevelLists == UNION {[1..n -> LevelValues] : n \in 0..MaxLevels}

\* sanitize_context(*contexts), a static method: only the outcome changes.
SanitizeContext(contexts) ==
    /\ ret' = (IF sanitize_context_raises(contexts)
               THEN Result("sanitize_context", <<contexts>>, "InvalidContext", None)
               ELSE Result("sanitize_context", <<contexts>>, "ok",
                           sanitize_context(contexts)))
    /\ gateway' = <<>>
    /\ UNCHANGED <<tables, context, package, history, edits, committed, calls,
                   in_transaction, files, deployment>>

\* A session as in Init, about to call sanitize_context on some levels.
InitSanitize ==
    /\ tables = FALSE
    /\ context = <<>>
    /\ package = <<>>
    /\ history = <<>>
    /\ edits = <<>>
    /\ committed = EmptyStore
    /\ \E contexts \in LevelLists :
          ret = Result("sanitize_context", <<contexts>>, "called", None)
    /\ gateway = <<>>
    /\ calls = <<>>
    /\ load_production = FALSE
    /\ in_transaction = FALSE
    /\ files = [production |-> EmptyStore, staging |-> EmptyStore]
    /\ history_folder = <<>>
    /\ keep_history = "True"
    /\ command = NoCommand

NextSanitize ==
    \/ ret.exc = "called" /\ SanitizeContext(ret.args[1])
    \/ ret.exc = "ok" /\ SanitizeContext(ret.value)

SpecSanitize == InitSanitize /\ [][NextSanitize]_vars

\* ------------------------------------------------------------------------
\* Context specifications: one staging session on the studio and one project.
\* In SpecContext the store is initialized once and insert_context is called
\* beside add_package; in SpecInitialize initialize is called again on the
\* initialized store.
\* ------------------------------------------------------------------------

CtxContexts == {<<>>, <<"proj">>}
CtxNames == {"pkgA"}

NextContext ==
    \/ ~tables /\ Initialize
    \/ /\ \E c \in CtxContexts : InsertContext(c)
       /\ Len(context') <= MaxContextRows
    \/ /\ \E c \in CtxContexts, n \in CtxNames :
             AddPackage(c, n, None, None, FALSE, "Solved")
       /\ Len(context') <= MaxContextRows
       /\ Len(package') <= CtxMaxRows
    \/ Save(FALSE, "")

SpecContext == Init /\ [][NextContext]_vars

NextInitialize ==
    \/ Initialize /\ Len(context') <= MaxContextRows
    \/ /\ \E c \in CtxContexts, n \in CtxNames :
             AddPackage(c, n, None, None, FALSE, "Solved")
       /\ Len(context') <= MaxContextRows
       /\ Len(package') <= CtxMaxRows
    \/ \E h \in BOOLEAN : Save(h, "")

SpecInitialize == Init /\ [][NextInitialize]_vars

\* ------------------------------------------------------------------------
\* Session specification: sessions of either mode, one after the other, on
\* the same two store files, without retention; each initializes its store
\* if it has no tables, adds and removes a package at studio or project
\* scope with or without validation, saves with or without the flush to the
\* history table, and deploys.
\* ------------------------------------------------------------------------

SessionContexts == {<<"proj">>}
SessionNames == {"pkgA"}

InitSession ==
    /\ tables = FALSE
    /\ context = <<>>
    /\ package = <<>>
    /\ history = <<>>
    /\ edits = <<>>
    /\ committed = EmptyStore
    /\ ret = Result("__enter__", <<>>, "ok", None)
    /\ gateway = <<>>
    /\ calls = <<>>
    /\ load_production \in BOOLEAN
    /\ in_transaction = FALSE
    /\ files = [production |-> EmptyStore, staging |-> EmptyStore]
    /\ history_folder = <<>>
    /\ keep_history = "False"
    /\ command = NoCommand

NextSession ==
    \/ \E load \in BOOLEAN : Enter(load)
    \/ ~Blocked /\ ~tables /\ Initialize
    \/ /\ ~Blocked
       /\ \E c \in SessionContexts, n \in SessionNames, v \in BOOLEAN,
             o \in GatewayOutcomes :
             /\ v \/ o = "Solved"
             /\ AddPackage(c, n, None, None, v, o)
       /\ Len(package') <= SessionMaxRows
       /\ RowIdsWithin(package', SessionMaxRowId)
       /\ Len(edits') <= SessionMaxEdits
    \/ /\ ~Blocked
       /\ \E c \in SessionContexts, n \in SessionNames, v \in BOOLEAN,
             o \in GatewayOutcomes :
             /\ v \/ o = "Solved"
             /\ RemovePackage(c, n, None, None, v, o)
       /\ Len(edits') <= SessionMaxEdits
    \/ /\ ~Blocked
       /\ \E h \in BOOLEAN : Save(h, "")
       /\ Len(history') <= SessionMaxHistory
    \/ ~Blocked /\ Deploy("ok")

SpecSession == InitSession /\ [][NextSession]_vars

\* ------------------------------------------------------------------------
\* Gateway specification: one staging session, initialized once, populated
\* by add_package calls without validation at studio and project scope, on
\* which get_package_list is called with and without validation and
\* validate_context on its own, for every outcome of the resolver.
\* ------------------------------------------------------------------------

GatewayContexts == {<<>>, <<"proj">>}
GatewayNames == {"pkgA", "pkgB"}
GatewayPackageLists == {<<>>, <<"pkgA">>, <<"pkgA", "pkgB">>}

NextGateway ==
    \/ ~tables /\ Initialize
    \/ /\ \E c \in GatewayContexts, n \in GatewayNames :
             AddPackage(c, n, None, None, FALSE, "Solved")
       /\ Len(package') <= GatewayMaxRows
    \/ \E c \in GatewayContexts, v \in BOOLEAN, o \in GatewayOutcomes :
          /\ v \/ o = "Solved"
          /\ GetPackageList(c, None, None, v, o)
    \/ \E ps \in GatewayPackageLists, o \in ResolverOutcomes :
          ValidateContext(ps, o)

SpecGateway == Init /\ [][NextGateway]_vars

\* ------------------------------------------------------------------------
\* Command specification: runs of the manage and resolve commands, one after
\* the other, on the same two store files, without retention.
\* ------------------------------------------------------------------------

ManageContexts == {<<"proj">>}
ManageUninstalls == {<<>>, <<"pkgA">>}
ManageInstalls == {<<>>, <<"pkgA">>, <<"pkgB", "pkgA">>, <<"pkgA", "pkgA">>}

\* What is typed at the prompts of --initialize and --deploy, and at those of
\* the uninstall and install blocks.
Answers == {"y", "Y", "n", "yes"}
BatchAnswers == {"y", "n"}

\* The answers typed at a prompt that is shown when `shown` holds.
AnswersIf(shown, typed) == IF shown THEN typed ELSE {""}

\* manage --initialize
InitializeCommands ==
    { CommandLine("manage", <<>>, TRUE, FALSE, <<>>, <<>>, FALSE, FALSE, FALSE,
                  [NoAnswers EXCEPT !.initialize = a]) : a \in Answers }

\* manage CONTEXT --list
ListCommands ==
    { CommandLine("manage", c, FALSE, TRUE, <<>>, <<>>, FALSE, FALSE, FALSE,
                  NoAnswers) : c \in ManageContexts }

\* manage CONTEXT [--uninstall ...] [--install ...] [--deploy] [--force]
BatchCommands ==
    UNION { UNION { UNION {
        { CommandLine("manage", c, FALSE, FALSE, u, i, d, f, FALSE,
                      [initialize |-> "", uninstall |-> au, install |-> ai,
                       deploy |-> ad]) :
            au \in AnswersIf(u # <<>> /\ ~f, BatchAnswers),
            ai \in AnswersIf(i # <<>> /\ ~f, BatchAnswers),
            ad \in AnswersIf(d /\ ~f, Answers) } :
        d \in BOOLEAN, f \in BOOLEAN } :
        u \in ManageUninstalls, i \in ManageInstalls } :
        c \in ManageContexts }

\* The contexts given to resolve: a project, or one level too many.
ResolveContexts == ManageContexts \cup {<<"proj", "cat", "ent", "shot">>}

\* resolve CONTEXT [--staging]
ResolveCommands ==
    { CommandLine("resolve", c, FALSE, FALSE, <<>>, <<>>, FALSE, FALSE, g,
                  NoAnswers) : c \in ResolveContexts, g \in BOOLEAN }

Commands == InitializeCommands \cup ListCommands \cup BatchCommands
                \cup ResolveCommands

InitManage ==
    /\ tables = FALSE
    /\ context = <<>>
    /\ package = <<>>
    /\ history = <<>>
    /\ edits = <<>>
    /\ committed = EmptyStore
    /\ ret = Result("__enter__", <<>>, "ok", None)
    /\ gateway = <<>>
    /\ calls = <<>>
    /\ load_production = FALSE
    /\ in_transaction = FALSE
    /\ files = [production |-> EmptyStore, staging |-> EmptyStore]
    /\ history_folder = <<>>
    /\ keep_history = "False"
    /\ command = NoCommand

NextManage ==
    \/ \E cmd \in Commands : StartCommand(cmd)
    \/ /\ next_call.op = "initialize"
       /\ Initialize
       /\ Len(context') <= ManageMaxContextRows
    \/ next_call.op = "exists" /\ Exists
    \/ next_call.op = "sanitize_context" /\ SanitizeContext(command.context)
    \/ next_call.op = "get_context_row_id" /\ GetContextRowId(command_contexts)
    \/ /\ next_call.op = "insert_context"
       /\ InsertContext(command_contexts)
       /\ Len(context') <= ManageMaxContextRows
    \/ /\ next_call.op = "get_package_list"
       /\ \E o \in GatewayOutcomes :
             GetPackageList(command_contexts, None, None, TRUE, o)
    \/ /\ next_call.op = "remove_package"
       /\ \E o \in GatewayOutcomes :
             /\ ~command.force \/ o = "Solved"
             /\ RemovePackage(command_contexts, next_call.name, None, None,
                              ~command.force, o)
    \/ /\ next_call.op = "add_package"
       /\ \E o \in GatewayOutcomes :
             /\ ~command.force \/ o = "Solved"
             /\ AddPackage(command_contexts, next_call.name, None, None,
                           ~command.force, o)
       /\ Len(package') <= ManageMaxRows
       /\ RowIdsWithin(package', ManageMaxRowId)
    \/ /\ next_call.op = "save"
       /\ Save(TRUE, "")
       /\ Len(history') <= ManageMaxHistory
    \/ next_call.op = "deploy" /\ Deploy("ok")

SpecManage == InitManage /\ [][NextManage]_vars

\* ------------------------------------------------------------------------
\* Hierarchy specification: one staging session in which insert_context and
\* add_package are given triples of the library interface, a project alone,
\* a category under a project, a category without a project and an entity
\* without a category.
\* ------------------------------------------------------------------------

HierarchyContexts ==
    {<<"proj">>, <<"proj", "cat">>, <<None, "cat">>, <<None, None, "ent">>}
HierarchyNames == {"pkgA"}

NextHierarchy ==
    \/ ~tables /\ Initialize
    \/ /\ \E c \in HierarchyContexts : InsertContext(c)
       /\ Len(context') <= MaxContextRows
    \/ /\ \E c \in HierarchyContexts, n \in HierarchyNames :
             AddPackage(c, n, None, None, FALSE, "Solved")
       /\ Len(context') <= MaxContextRows
       /\ Len(package') <= CtxMaxRows
    \/ Save(FALSE, "")

SpecHierarchy == Init /\ [][NextHierarchy]_vars

\* ------------------------------------------------------------------------
\* Visibility specification: a staging session populated by add_package on
\* the studio and one project, with the step and the software absent, empty
\* or named.
\* ------------------------------------------------------------------------

VisibleContexts == {<<>>, <<"proj">>}
VisibleNames == {"pkgA", "pkgB"}
VisibleSteps == {None, "", "stepA"}
VisibleSoftwares == {None, "", "softA"}

NextVisible ==
    \/ ~tables /\ Initialize
    \/ \E c \in VisibleContexts, n \in VisibleNames, s \in VisibleSteps,
          w \in VisibleSoftwares :
          /\ AddPackage(c, n, s, w, FALSE, "Solved")
          /\ Len(package') <= MaxRows

SpecVisible == Init /\ [][NextVisible]_vars

\* ------------------------------------------------------------------------
\* Listing specifications: a store initialized once and populated by
\* add_package calls without validation.  SpecList spreads the rows over the
\* four scopes, SpecAxes over the four axis groups.
\* ------------------------------------------------------------------------

ListContexts == {<<>>, <<"proj">>, <<"proj", "cat">>, <<"proj", "cat", "ent">>}
ListNames == {"pkgA", "pkgB"}
ListSteps == {None, "stepA"}
ListSoftwares == {None}

\* Arguments of the get_package_list calls examined in every state of SpecList.
ListQueryContexts == ListContexts \cup {<<"proj", "other">>}
ListQuerySteps == {None, "stepA"}
ListQuerySoftwares == {None}

NextList ==
    \/ ~tables /\ Initialize
    \/ \E c \in ListContexts, n \in ListNames, s \in ListSteps, w \in ListSoftwares :
          /\ AddPackage(c, n, s, w, FALSE, "Solved")
          /\ Len(package') <= ListMaxRows

SpecList == Init /\ [][NextList]_vars

AxesContexts == {<<>>, <<"proj">>}
AxesNames == {"pkgA", "pkgB"}
AxesSteps == {None, "stepA"}
AxesSoftwares == {None, "softA"}

\* Arguments of the get_package_list calls examined in every state of
\* SpecAxes: for the narrowing of the axes, and for the order of the groups.
NarrowQueryContexts == {<<"proj">>, <<"other">>}
NarrowQuerySteps == {None, "", "stepA", "stepB"}
NarrowQuerySoftwares == {None, "softA", "softB"}
AxesQueryContexts == AxesContexts \cup {<<"other">>}
AxesQuerySteps == {None, "stepA"}
AxesQuerySoftwares == {None, "softA"}

NextAxes ==
    \/ ~tables /\ Initialize
    \/ \E c \in AxesContexts, n \in AxesNames, s \in AxesSteps, w \in AxesSoftwares :
          /\ AddPackage(c, n, s, w, FALSE, "Solved")
          /\ Len(package') <= ListMaxRows

SpecAxes == Init /\ [][NextAxes]_vars

\* ------------------------------------------------------------------------
\* What the listing claims speak about, stated on the tables themselves
\* ------------------------------------------------------------------------

\* The ancestor chain of a triple: studio, (p), (p, c), (p, c, e).
Ancestors(contexts) ==
    LET pc == sanitize_context(contexts)
    IN << <<None, None, None>>, <<pc[1], None, None>>, <<pc[1], pc[2], None>>, pc >>

\* The (project, category, entity) triple of the context row of package row i.
RowTriple(i) ==
    LET cr == CHOOSE k \in 1..Len(context) : context[k].context_id = package[i].context_id
    IN <<context[cr].project, context[cr].category, context[cr].entity>>

\* A step or software is requested when the argument is a non-empty string.
Requested(x) == Truthy(x)

\* The four axis groups in their fixed order, and which of them a call reads.
GroupPair(g, step, software) ==
    CASE g = 1 -> <<None, None>>
      [] g = 2 -> <<step, None>>
      [] g = 3 -> <<None, software>>
      [] g = 4 -> <<step, software>>

GroupActive(g, step, software) ==
    CASE g = 1 -> TRUE
      [] g = 2 -> Requested(step)
      [] g = 3 -> Requested(software)
      [] g = 4 -> Requested(step) /\ Requested(software)

\* The position in the chain of the ancestor context package row i belongs to
\* (a context is counted once, at its first position), 0 when it is no ancestor.
ScopeOf(i, anc) ==
    IF \E k \in 1..4 : anc[k] = RowTriple(i)
    THEN CHOOSE k \in 1..4 : /\ anc[k] = RowTriple(i)
                             /\ \A j \in 1..(k - 1) : anc[j] # RowTriple(i)
    ELSE 0

\* The active axis group package row i belongs to, 0 when it is in none.
GroupOf(i, step, software) ==
    LET gs == { g \in 1..4 : /\ GroupActive(g, step, software)
                            /\ <<package[i].step, package[i].software>>
                                  = GroupPair(g, step, software) }
    IN IF gs = {} THEN 0 ELSE CHOOSE g \in gs : \A g2 \in gs : g <= g2

\* <<k, g, i>>: package row i belongs to the k-th ancestor context and to the
\* active axis group g.
Hits(contexts, step, software) ==
    LET anc == Ancestors(contexts)
        all == { <<ScopeOf(i, anc), GroupOf(i, step, software), i>> :
                    i \in 1..Len(package) }
    IN { h \in all : h[1] # 0 /\ h[2] # 0 }

\* Order of the concatenation: context first, then axis group, then row.
Before(h1, h2) ==
    \/ h1[1] < h2[1]
    \/ h1[1] = h2[1] /\ h1[2] < h2[2]
    \/ h1[1] = h2[1] /\ h1[2] = h2[2] /\ h1[3] < h2[3]

\* The first place of the concatenation where each name occurs.
FirstHit(hits) ==
    [ n \in { package[h[3]].name : h \in hits } |->
        LET hs == { h \in hits : package[h[3]].name = n }
        IN CHOOSE h \in hs : \A h2 \in hs : h = h2 \/ Before(h, h2) ]

ListedNames(L) == { L[a] : a \in 1..Len(L) }

\* C1 (override ordering): for every triple, the names get_package_list
\* returns without validation are those of the studio root, of (p), of
\* (p, c) and of (p, c, e); a name first contributed by a broader scope
\* precedes every name first contributed by a narrower one, and two names first
\* contributed by the same scope and axis group are in insertion (rowid) order.
C1_OverrideOrdering ==
    tables =>
    \A c \in ListQueryContexts, s \in ListQuerySteps, w \in ListQuerySoftwares :
        LET L == get_package_list(context, package, c, s, w)
            F == FirstHit(Hits(c, s, w))
        IN /\ ListedNames(L) = DOMAIN F
           /\ \A a, b \in 1..Len(L) :
                 a < b =>
                    /\ F[L[a]][1] <= F[L[b]][1]
                    /\ (F[L[a]][1] = F[L[b]][1] /\ F[L[a]][2] = F[L[b]][2])
                          => F[L[a]][3] < F[L[b]][3]

\* pkgB was inserted first, at entity scope, pkgA later at studio scope, and
\* the entity's list still starts with the studio's pkgA.
C1_Witness ==
    /\ Len(package) >= 2
    /\ package[1].name = "pkgB"
    /\ RowTriple(1) = <<"proj", "cat", "ent">>
    /\ package[2].name = "pkgA"
    /\ RowTriple(2) = <<None, None, None>>
    /\ package[1].step = None /\ package[1].software = None
    /\ package[2].step = None /\ package[2].software = None
    /\ get_package_list(context, package, <<"proj", "cat", "ent">>, None, None)
          = <<"pkgA", "pkgB">>

\* The (step, software) pairs the claim allows a call to return.
AllowedPairs(step, software) ==
    {<<None, None>>}
    \cup (IF step # None THEN {<<step, None>>} ELSE {})
    \cup (IF software # None THEN {<<None, software>>} ELSE {})
    \cup (IF step # None /\ software # None THEN {<<step, software>>} ELSE {})

\* C2 (step/software narrowing): every name get_package_list returns is the
\* name of a package row of an ancestor context whose (step, software) pair is
\* (null, null), (s, null), (null, w) or (s, w) for the requested s and w; a
\* name carried only by rows of another step or software is never returned.
C2_Narrowing ==
    tables =>
    \A c \in NarrowQueryContexts, s \in NarrowQuerySteps, w \in NarrowQuerySoftwares :
        LET L == get_package_list(context, package, c, s, w)
            anc == Ancestors(c)
        IN \A a \in 1..Len(L) :
              \E i \in 1..Len(package) :
                 /\ package[i].name = L[a]
                 /\ \E k \in 1..4 : RowTriple(i) = anc[k]
                 /\ <<package[i].step, package[i].software>> \in AllowedPairs(s, w)

\* pkgB sits under stepA at studio scope: listed with step stepA, not listed
\* without a step nor with another step.
C2_Witness ==
    /\ Len(package) = 2
    /\ package[1].name = "pkgA" /\ package[1].step = None /\ package[1].software = None
    /\ package[2].name = "pkgB" /\ package[2].step = "stepA" /\ package[2].software = None
    /\ RowTriple(1) = <<None, None, None>> /\ RowTriple(2) = <<None, None, None>>
    /\ get_package_list(context, package, <<"proj">>, "stepA", None) = <<"pkgA", "pkgB">>
    /\ get_package_list(context, package, <<"proj">>, None, None) = <<"pkgA">>
    /\ get_package_list(context, package, <<"proj">>, "stepB", None) = <<"pkgA">>

\* C3 (concatenation and de-duplication): the result holds no name twice,
\* holds exactly the names of the concatenation (ancestor contexts broadest
\* first, axis groups in their fixed order, rows in table order), and orders
\* them by their first occurrence in that concatenation.
C3_ConcatDedup ==
    tables =>
    \A c \in AxesQueryContexts, s \in AxesQuerySteps, w \in AxesQuerySoftwares :
        LET L == get_package_list(context, package, c, s, w)
            F == FirstHit(Hits(c, s, w))
        IN /\ \A a, b \in 1..Len(L) : a # b => L[a] # L[b]
           /\ ListedNames(L) = DOMAIN F
           /\ \A a, b \in 1..Len(L) : a < b => Before(F[L[a]], F[L[b]])

\* pkgA is in the studio's step group and again in the project's plain group,
\* pkgB in the studio's plain group: the list keeps one pkgA, at the place of
\* its first occurrence.
C3_Witness ==
    /\ Len(package) = 3
    /\ package[1].name = "pkgA" /\ RowTriple(1) = <<"proj", None, None>>
    /\ package[1].step = None /\ package[1].software = None
    /\ package[2].name = "pkgA" /\ RowTriple(2) = <<None, None, None>>
    /\ package[2].step = "stepA" /\ package[2].software = None
    /\ package[3].name = "pkgB" /\ RowTriple(3) = <<None, None, None>>
    /\ package[3].step = None /\ package[3].software = None
    /\ collect_packages(context, package, <<"proj">>, "stepA", None)
          = <<"pkgB", "pkgA", "pkgA">>
    /\ get_package_list(context, package, <<"proj">>, "stepA", None) = <<"pkgB", "pkgA">>

\* ------------------------------------------------------------------------
\* What the ledger claims speak about
\* ------------------------------------------------------------------------

\* The positions of the context rows holding a triple.
ContextRowsOf(ctx, triple) ==
    { k \in 1..Len(ctx) : <<ctx[k].project, ctx[k].category, ctx[k].entity>> = triple }

\* Package row r is the entry (triple, name, step, software).
IsEntry(ctx, r, triple, name, step, software) ==
    /\ r.name = name
    /\ r.step = step
    /\ r.software = software
    /\ \E k \in ContextRowsOf(ctx, triple) : ctx[k].context_id = r.context_id

\* Sequence s without its i-th element.
RemoveAt(s, i) == SubSeq(s, 1, i - 1) \o SubSeq(s, i + 1, Len(s))

\* The step is an add_package or remove_package call.
IsMutatingCall(r) == r.op \in {"add_package", "remove_package"}

\* The package table, the context table and the pending buffer are as before.
LedgerUnchanged == package' = package /\ context' = context /\ edits' = edits

\* C4 (effect of add_package): a successful add_package(T, name, step,
\* software) appends exactly one package row (context_id of T, name, step,
\* software), inserts the context row of T exactly when no row held T before,
\* appends exactly one INSTALL record to the pending buffer, and returns the
\* rowid of the new package row.
C4_AddPackageEffect ==
    [][ (ret'.op = "add_package" /\ ret'.exc = "ok") =>
          LET a    == ret'.args
              T    == sanitize_context(a[1])
              seen == ContextRowsOf(context, T) # {}
              new  == package'[Len(package')]
          IN /\ Len(package') = Len(package) + 1
             /\ SubSeq(package', 1, Len(package)) = package
             /\ IsEntry(context', new, T, a[2], a[3], a[4])
             /\ seen => context' = context
             /\ ~seen => /\ Len(context') = Len(context) + 1
                         /\ SubSeq(context', 1, Len(context)) = context
                         /\ ContextRowsOf(context', T) = {Len(context')}
             /\ edits' = Append(edits, [context |-> a[1], package_name |-> a[2],
                                        step |-> a[3], software |-> a[4],
                                        operation |-> 1])
             /\ ret'.value = new.rowid
             /\ \A i \in 1..Len(package) : package[i].rowid # new.rowid
      ]_vars

\* add_package on the not yet seen triple (proj, cat) just returned: the
\* context row and the package row are there, the rowid was returned.
C4_Witness ==
    /\ ret.op = "add_package" /\ ret.exc = "ok"
    /\ ret.args[1] = <<"proj", "cat">>
    /\ Len(context) = 2
    /\ context[2].project = "proj" /\ context[2].category = "cat"
    /\ Len(package) = 2
    /\ package[2].context_id = context[2].context_id
    /\ package[1].context_id = context[1].context_id
    /\ ret.value = package[2].rowid
    /\ Len(edits) = 2

\* C5 (rejected validation): when add_package or remove_package validates
\* and the gateway rejects the submitted set, the call fails and the package
\* table, the context table and the pending buffer are as before the call; a
\* rejected add_package on a not yet seen triple creates no context row.
C5_RejectedValidationNoEffect ==
    [][ ( /\ IsMutatingCall(ret')
          /\ gateway' # <<>>
          /\ gateway'[1].outcome # "Solved" )
        => (ret'.exc # "ok" /\ LedgerUnchanged) ]_vars

\* A validated add_package on the not yet seen triple (proj, cat) was
\* rejected by the gateway: there is still no context row for it.
C5_Witness ==
    /\ ret.op = "add_package" /\ ret.exc = "RezError"
    /\ ret.args[1] = <<"proj", "cat">>
    /\ gateway # <<>> /\ gateway[1].outcome = "RezError"
    /\ package # <<>>
    /\ ContextRowsOf(context, <<"proj", "cat", None>>) = {}

\* C6 (remove_package lookups): on an initialized store remove_package never
\* changes the context table; it fails with the unknown-context error when
\* no context row holds the triple, and with the unknown-package error when the
\* context exists but no row is the exact (context, name, step, software)
\* entry, a null step or software matching only null; both leave the package
\* table, the context table and the pending buffer as they were.
C6_RemoveLookupErrors ==
    [][ (ret'.op = "remove_package" /\ tables /\ Len(ret'.args[1]) <= 3) =>
          LET a == ret'.args
              T == sanitize_context(a[1])
              known == ContextRowsOf(context, T) # {}
              present == \E i \in 1..Len(package) :
                            IsEntry(context, package[i], T, a[2], a[3], a[4])
          IN /\ context' = context
             /\ ~known => (ret'.exc = "UnknownContext" /\ LedgerUnchanged)
             /\ (known /\ ~present) => (ret'.exc = "UnknownPackage" /\ LedgerUnchanged)
      ]_vars

\* remove_package(studio, pkgA) with no step just failed with the
\* unknown-package error although pkgA is installed at studio scope under stepA.
C6_Witness ==
    /\ ret.op = "remove_package" /\ ret.exc = "UnknownPackage"
    /\ ret.args[1] = <<>> /\ ret.args[3] = None /\ ret.args[4] = None
    /\ \E i \in 1..Len(package) :
          IsEntry(context, package[i], <<None, None, None>>, "pkgA", "stepA", None)

\* C7 (exact-match removal): a successful remove_package(T, name, step,
\* software) deletes exactly one package row, which is the entry (T, name,
\* step, software), leaves every other row and the context table unchanged
\* and appends exactly one UNINSTALL record to the pending buffer.
C7_RemoveExactMatch ==
    [][ (ret'.op = "remove_package" /\ ret'.exc = "ok") =>
          LET a == ret'.args
              T == sanitize_context(a[1])
          IN /\ \E i \in 1..Len(package) :
                   /\ IsEntry(context, package[i], T, a[2], a[3], a[4])
                   /\ package' = RemoveAt(package, i)
             /\ context' = context
             /\ edits' = Append(edits, [context |-> a[1], package_name |-> a[2],
                                        step |-> a[3], software |-> a[4],
                                        operation |-> 2])
      ]_vars

\* remove_package(studio, pkgA) with no step just succeeded; the pkgA row
\* under stepA at studio scope, inserted before the removed one, is still there.
C7_Witness ==
    /\ ret.op = "remove_package" /\ ret.exc = "ok"
    /\ ret.args[1] = <<>> /\ ret.args[3] = None /\ ret.args[4] = None
    /\ Len(package) = 1
    /\ IsEntry(context, package[1], <<None, None, None>>, "pkgA", "stepA", None)
    /\ Len(edits) = 3
    /\ edits[2].step = None /\ edits[2].operation = 1
    /\ edits[3].operation = 2

\* ------------------------------------------------------------------------
\* What the edit buffer and save claims speak about
\* ------------------------------------------------------------------------

\* The record a call leaves in the pending buffer.
RecordOf(contexts, name, step, software, op) ==
    [context |-> contexts, package_name |-> name, step |-> step,
     software |-> software,
     operation |-> IF op = "add_package" THEN 1 ELSE 2]

\* C8 as stated (every call made counts): on an initialized store every
\* add_package or remove_package call appends exactly one record carrying the
\* call's context, name, step, software and tag to the pending buffer.
C8_EveryCallRecorded ==
    [][ (IsMutatingCall(ret') /\ tables) =>
          edits' = Append(edits, RecordOf(ret'.args[1], ret'.args[2], ret'.args[3],
                                          ret'.args[4], ret'.op)) ]_vars

\* C8 (edit buffer accounting, amended): in every reachable state the
\* pending buffer holds exactly one record per add_package/remove_package call
\* that returned normally since the last save, in call order, each carrying
\* the call's context, name, step, software and INSTALL or UNINSTALL tag; a
\* call that raised left no record.
C8_EditBufferAccounting ==
    /\ Len(edits) = Len(calls)
    /\ \A i \in 1..Len(calls) :
          edits[i] = RecordOf(calls[i].contexts, calls[i].name, calls[i].step,
                              calls[i].software, calls[i].op)

\* An add_package and a remove_package returned since the last save, then a
\* remove_package raised: two records, in call order.
C8_Witness ==
    /\ ret.op = "remove_package" /\ ret.exc = "UnknownPackage"
    /\ Len(edits) = 2
    /\ edits[1].operation = 1 /\ edits[2].operation = 2
    /\ committed.package # package \/ committed.context # context

\* C9 (save clears and commits): every save returns, empties the pending
\* buffer and commits the tables as they are, whether or not it flushes; a
\* save(store_history = false) adds no row to the history table.
C9_SaveClearsAndCommits ==
    [][ ret'.op = "save" =>
          /\ ret'.exc = "ok"
          /\ edits' = <<>>
          /\ package' = package /\ context' = context /\ tables' = tables
          /\ committed' = [tables |-> tables', context |-> context',
                           package |-> package', history |-> history']
          /\ ret'.args[1] = FALSE => history' = history
      ]_vars

\* save(store_history = false) returned after an add_package: the buffer is
\* empty, the new rows are committed and the history table is still empty.
C9_Witness ==
    /\ ret.op = "save" /\ ret.args[1] = FALSE
    /\ edits = <<>>
    /\ package # <<>>
    /\ Len(context) = 2
    /\ committed.package = package /\ committed.context = context
    /\ history = <<>> /\ committed.history = <<>>

\* The levels of a context that are not null.
NonNullLevels(contexts) == SelectSeq(contexts, LAMBDA x : x # None)

\* The levels of a context that are neither null nor the empty string.
NonEmptyLevels(contexts) == SelectSeq(contexts, LAMBDA x : x # None /\ x # "")

\* History row h is the entry of the i-th of total records, e, for the given
\* comment and the given levels of its context.
IsAuditEntry(h, e, i, total, comment, levels) ==
    /\ h.context = JoinComma(levels)
    /\ h.package_name = e.package_name
    /\ h.step = (IF e.step = None THEN "" ELSE e.step)
    /\ h.software = (IF e.software = None THEN "" ELSE e.software)
    /\ h.operation = e.operation
    /\ e.operation \in {1, 2}
    /\ h.comment = comment \o "(" \o ToString(i) \o "/" \o ToString(total) \o ")"

\* C10 as stated: a flushing save appends one entry per buffered record, in
\* buffer order, after all earlier rows, the context being the non-null levels
\* joined by a comma.
C10_FlushNonNullLevels ==
    [][ (ret'.op = "save" /\ ret'.args[1] = TRUE) =>
          /\ Len(history') = Len(history) + Len(edits)
          /\ SubSeq(history', 1, Len(history)) = history
          /\ \A i \in 1..Len(edits) :
                IsAuditEntry(history'[Len(history) + i], edits[i], i, Len(edits),
                             ret'.args[2], NonNullLevels(edits[i].context))
      ]_vars

\* C10 (flush, amended): a flushing save appends exactly one entry per
\* buffered record, in buffer order, after all earlier rows; the i-th of N has
\* comment = comment + "(i/N)" counted from 1, context = the levels that are
\* neither null nor the empty string joined by a comma, step and software = the
\* empty string when absent, operation = 1 for INSTALL and 2 for UNINSTALL;
\* with an empty buffer nothing is appended.
C10_FlushEntries ==
    [][ (ret'.op = "save" /\ ret'.args[1] = TRUE) =>
          /\ Len(history') = Len(history) + Len(edits)
          /\ SubSeq(history', 1, Len(history)) = history
          /\ \A i \in 1..Len(edits) :
                IsAuditEntry(history'[Len(history) + i], edits[i], i, Len(edits),
                             ret'.args[2], NonEmptyLevels(edits[i].context))
      ]_vars

\* A flushing save wrote an INSTALL and an UNINSTALL of pkgA in (proj, cat)
\* as entries (1/2) and (2/2).
C10_Witness ==
    /\ ret.op = "save" /\ ret.args[1] = TRUE
    /\ Len(history) = 2
    /\ history[1].comment = "fix(1/2)" /\ history[2].comment = "fix(2/2)"
    /\ history[1].operation = 1 /\ history[2].operation = 2
    /\ history[1].context = "proj,cat" /\ history[2].context = "proj,cat"
    /\ history[1].step = "stepA" /\ history[1].software = ""
    /\ edits = <<>>

\* ------------------------------------------------------------------------
\* What the deployment claims speak about
\* ------------------------------------------------------------------------

\* The retention setting as the configuration states it.
RetentionEnabled == keep_history \in {"True", "'true'"}
RetentionDisabled == keep_history \in {"False", "'false'"}

\* The step is a deploy call that returned normally.
DeployReturned == ret'.op = "deploy" /\ ret'.exc = "ok"

\* The history folder gained exactly one file, after the files it had.
OneNewBackup ==
    /\ Len(history_folder') = Len(history_folder) + 1
    /\ SubSeq(history_folder', 1, Len(history_folder)) = history_folder

\* C11 (deployment direction): the mode of a session changes only when a new
\* session is opened; a deploy on a production-mode session raises and leaves
\* the production store, the staging store and the history folder unchanged.
C11_DeployDirection ==
    [][ /\ ret'.op # "__enter__" => load_production' = load_production
        /\ (ret'.op = "deploy" /\ load_production) =>
              /\ ret'.exc = "RuntimeError"
              /\ files' = files
              /\ history_folder' = history_folder
              /\ <<tables, context, package, history>>' =
                     <<tables, context, package, history>>
      ]_vars

\* A production-mode session, opened on a production store that an earlier
\* deploy filled, had its deploy refused.
C11_Witness ==
    /\ ret.op = "deploy" /\ ret.exc = "RuntimeError"
    /\ load_production
    /\ files.production.package # <<>>
    /\ files.staging.package = <<>>
    /\ history_folder # <<>>

\* C12 (backup ordering): every deploy that returns normally from a staging
\* session with retention enabled adds exactly one file to the history
\* folder, holding the production store as it was before the overwrite, and
\* overwrites the production store with the staging store; with retention
\* disabled (the setting is false) it adds no file and still overwrites.
C12_BackupThenOverwrite ==
    [][ DeployReturned =>
          /\ files'.production = files.staging
          /\ RetentionEnabled =>
                OneNewBackup /\ history_folder'[Len(history_folder')] = files.production
          /\ RetentionDisabled => history_folder' = history_folder
      ]_vars

\* The backup step of the deploy call of this step fails: the backup file
\* cannot be opened, or the history folder does not exist yet and cannot be
\* created.
BackupFails ==
    \/ ret'.args[1] = "fails"
    \/ ret'.args[1] = "makedirs_fails" /\ history_folder = <<>>

\* C13 (failed backup): when retention is enabled and the backup step of a
\* deploy fails, the deploy does not return normally and the production store
\* (with the staging store and the history folder) is as before the call.
C13_NoPromotionWithoutBackup ==
    [][ (ret'.op = "deploy" /\ ~load_production /\ RetentionEnabled
            /\ BackupFails) =>
          /\ ret'.exc \notin {"ok", "blocked"}
          /\ files' = files
          /\ history_folder' = history_folder
      ]_vars

\* The backup failed for a staging session whose committed store differs from
\* the production store: the production store was not overwritten.
C13_Witness ==
    /\ ret.op = "deploy" /\ ret.exc = "OperationalError" /\ ret.args[1] = "fails"
    /\ ~load_production /\ ~in_transaction
    /\ files.staging.package # <<>>
    /\ files.production # files.staging

\* Arguments of the get_package_list calls compared on the two stores.
DeployQueryContexts == {<<>>, <<"proj">>}
DeployQuerySteps == {None, "stepA"}

\* C14 (promotion): after a deploy that returned normally the production
\* store equals the staging store, table by table, the staging store being
\* untouched; a production session opened next holds those tables and its
\* get_package_list returns, for every triple and step, what the staging store
\* gives.
C14_ProductionEqualsStaging ==
    [][ /\ DeployReturned =>
              /\ files'.staging = files.staging
              /\ files'.production.context = files.staging.context
              /\ files'.production.package = files.staging.package
              /\ files'.production.history = files.staging.history
              /\ files'.production.tables = files.staging.tables
        /\ (ret.op = "deploy" /\ ret.exc = "ok" /\ ret'.op = "__enter__"
               /\ load_production') =>
              /\ <<tables', context', package', history'>> =
                   <<files.staging.tables, files.staging.context,
                     files.staging.package, files.staging.history>>
              /\ \A c \in DeployQueryContexts, s \in DeployQuerySteps :
                    get_package_list(context', package', c, s, None)
                      = get_package_list(files.staging.context,
                                         files.staging.package, c, s, None)
      ]_vars

\* A production session was opened right after a deploy of a staging store
\* that lists pkgA, over a production store that did not.
C14_Witness ==
    /\ ret.op = "__enter__" /\ load_production
    /\ get_package_list(context, package, <<>>, None, None) = <<"pkgA">>
    /\ files.production = files.staging
    /\ history_folder # <<>>
    /\ history_folder[Len(history_folder)].package = <<>>
    /\ edits = <<>>

\* C15 (backup content): whenever a deploy writes a file to the history
\* folder, it writes exactly one, and it holds the production store as it was
\* immediately before that deploy.
C15_BackupIsPriorProduction ==
    [][ (ret'.op = "deploy" /\ history_folder' # history_folder) =>
          /\ OneNewBackup
          /\ history_folder'[Len(history_folder')] = files.production
      ]_vars

\* A second deploy returned: its backup holds the initialized production
\* store without the package, while the staging store and the production
\* store after the promotion hold the package.
C15_Witness ==
    /\ ret.op = "deploy" /\ ret.exc = "ok"
    /\ Len(history_folder) = 2
    /\ history_folder[2].tables /\ history_folder[2].package = <<>>
    /\ files.production.package # <<>>
    /\ files.staging.package # <<>>

\* ------------------------------------------------------------------------
\* What the round-trip claim speaks about
\* ------------------------------------------------------------------------

\* The calls are add_package calls followed by remove_package calls with the
\* same context, name, step and software, in the same order.
IsRoundTrip(cs) ==
    /\ Len(cs) > 0 /\ Len(cs) % 2 = 0
    /\ LET n == Len(cs) \div 2
       IN \A i \in 1..n :
             /\ cs[i].op = "add_package"
             /\ cs[n + i].op = "remove_package"
             /\ cs[n + i].contexts = cs[i].contexts
             /\ cs[n + i].name = cs[i].name
             /\ cs[n + i].step = cs[i].step
             /\ cs[n + i].software = cs[i].software

\* C16 (round trip): when the calls made since the last save are add_package
\* calls followed by the same remove_package calls, get_package_list returns
\* what it returned on the store as saved, before the first of them.
C16_RoundTrip ==
    IsRoundTrip(calls) =>
        get_package_list(context, package, <<>>, None, None)
          = get_package_list(committed.context, committed.package, <<>>, None, None)

\* ------------------------------------------------------------------------
\* What the context claims speak about
\* ------------------------------------------------------------------------

\* C17 (sanitize_context): called on 0 to 3 levels it returns exactly 3
\* positions, the levels followed by null padding; called on its own result it
\* returns that result; called on more than 3 levels it raises.
C17_SanitizeContext ==
    [][ (ret'.op = "sanitize_context" /\ ret'.exc # "called") =>
          LET levels == ret'.args[1]
          IN /\ Len(levels) <= 3 =>
                   /\ ret'.exc = "ok"
                   /\ Len(ret'.value) = 3
                   /\ \A i \in 1..3 :
                         ret'.value[i] = (IF i <= Len(levels) THEN levels[i] ELSE None)
             /\ Len(levels) > 3 => ret'.exc = "InvalidContext"
             /\ ret.exc = "ok" => (levels = ret.value /\ ret'.value = ret.value)
      ]_vars

\* sanitize_context was called on the result of sanitizing one level.
C17_Witness ==
    /\ ret.op = "sanitize_context" /\ ret.exc = "ok"
    /\ ret.args[1] = <<"proj", None, None>>
    /\ ret.value = <<"proj", None, None>>

\* The (project, category, entity) triple of a context row.
TripleOf(r) == <<r.project, r.category, r.entity>>

\* Triples whose context id is looked up before and after a call.
CtxQueryContexts == CtxContexts \cup {<<"other">>}

\* C18 (resolve or create is idempotent): an add_package that returns uses
\* the context id get_context_row_id gave for its triple before the call when
\* there was one, and then creates no context row; the id it uses is the one
\* get_context_row_id gives afterwards and the one of every earlier entry of
\* that triple; get_context_row_id of a triple that had an id returns the same
\* id after the call.
C18_EnsureContextIdempotent ==
    [][ (ret'.op = "add_package" /\ ret'.exc = "ok") =>
          LET T      == ret'.args[1]
              before == get_context_row_id(context, T)
              new    == package'[Len(package')]
          IN /\ before # NoRow => (context' = context /\ new.context_id = before)
             /\ new.context_id = get_context_row_id(context', T)
             /\ \A U \in CtxQueryContexts :
                   get_context_row_id(context, U) # NoRow =>
                      get_context_row_id(context', U) = get_context_row_id(context, U)
             /\ \A i \in 1..Len(package) :
                   RowTriple(i) = sanitize_context(T) =>
                      package[i].context_id = new.context_id
      ]_vars

\* Two add_package calls on (proj) returned: both entries carry the context id
\* of the one row of (proj).
C18_Witness ==
    /\ ret.op = "add_package" /\ ret.exc = "ok" /\ ret.args[1] = <<"proj">>
    /\ Len(package) = 2
    /\ package[1].context_id = package[2].context_id
    /\ Len(context) = 2
    /\ TripleOf(context[2]) = <<"proj", None, None>>
    /\ package[2].context_id = context[2].context_id

\* C19 (unique triples): no two rows of the context table hold the same
\* (project, category, entity) triple.
C19_UniqueTriples ==
    \A i, j \in 1..Len(context) :
        i # j => TripleOf(context[i]) # TripleOf(context[j])

\* The rows of a context table whose three levels are null.
StudioRows(ctx) == {i \in 1..Len(ctx) : TripleOf(ctx[i]) = <<None, None, None>>}

\* C20 (initialize): after every initialize the context table has exactly one
\* row with all three levels null, whatever the store held before.
C20_OneStudioRoot ==
    [][ ret'.op = "initialize" => Cardinality(StudioRows(context')) = 1 ]_vars

\* ------------------------------------------------------------------------
\* What the store-wide claims speak about
\* ------------------------------------------------------------------------

StoreNames == {"production", "staging"}

\* s is an initial segment of t.
IsPrefix(s, t) == Len(s) <= Len(t) /\ SubSeq(t, 1, Len(s)) = s

\* C21 as stated (audit log append-only on each store): every entry committed
\* to the history table of a store keeps its content and its position through
\* every later operation on either store, deploy included.
C21_AppendOnlyEveryOperation ==
    [][ \A f \in StoreNames :
           IsPrefix(files[f].history, files'[f].history) ]_vars

\* C21 (audit log append-only, deploy apart): every entry committed to the
\* history table of a store keeps its content and its position through every
\* later add, remove, save and initialize on either store, and the staging
\* store's through deploy too; a deploy that returns replaces the history
\* table of the production store by the one of the staging store.
C21_AppendOnlyBetweenDeploys ==
    [][ /\ IsPrefix(files.staging.history, files'.staging.history)
        /\ IF DeployReturned
           THEN files'.production.history = files.staging.history
           ELSE IsPrefix(files.production.history, files'.production.history)
      ]_vars

\* A deploy returned and left a production store without the entry that a
\* production-mode session had committed to it; the backup still holds it.
C21_Witness ==
    /\ ret.op = "deploy" /\ ret.exc = "ok"
    /\ history_folder # <<>>
    /\ history_folder[Len(history_folder)].history # <<>>
    /\ files.production.history = <<>>
    /\ files.staging.history = <<>>

\* Every package row of the image s refers to a context row of s.
ReferencesHold(s) ==
    \A i \in 1..Len(s.package) :
       \E j \in 1..Len(s.context) :
          s.context[j].context_id = s.package[i].context_id

\* C22 (referential integrity): in every reachable state the context_id of
\* every package row is the id of an existing context row, in the tables the
\* session sees and in the production and the staging store on disk.
C22_ContextIdReferences ==
    /\ ReferencesHold(store)
    /\ \A f \in StoreNames : ReferencesHold(files[f])

\* A deploy promoted a package row whose context row add_package had created
\* together with it.
C22_Witness ==
    /\ ret.op = "deploy" /\ ret.exc = "ok"
    /\ files.production.package # <<>>
    /\ \E j \in 1..Len(files.production.context) :
          /\ files.production.context[j].project = "proj"
          /\ files.production.context[j].context_id =
                 files.production.package[1].context_id

\* The context column the audit log holds for the context row of id cid.
AuditContextOf(s, cid) ==
    LET rows == SelectSeq(s.context, LAMBDA c : c.context_id = cid)
    IN JoinComma(NonEmptyLevels(<<rows[1].project, rows[1].category,
                                  rows[1].entity>>))

\* C23 as stated, its audit half (promotion only of audited mutations): once
\* a deploy has returned, every package row of the production store has an
\* INSTALL entry for its name and context in the production store's history
\* table.
C23_PromotedRowsAudited ==
    (ret.op = "deploy" /\ ret.exc = "ok") =>
        \A i \in 1..Len(files.production.package) :
           \E j \in 1..Len(files.production.history) :
              /\ files.production.history[j].operation = INSTALL
              /\ files.production.history[j].package_name =
                     files.production.package[i].name
              /\ files.production.history[j].context =
                     AuditContextOf(files.production,
                                    files.production.package[i].context_id)

\* C23 (validation and audit on request): an add_package or remove_package
\* call made with validate=true returns only after the gateway accepted the
\* submitted list; a save with store_history=true appends one history entry
\* per call that returned since the last save, in call order, with the call's
\* package name and operation; a deploy that returns promotes only saved
\* mutations, the package table together with the history table.
C23_ValidatedAndAuditedOnRequest ==
    [][ /\ (IsMutatingCall(ret') /\ ret'.exc = "ok" /\ ret'.args[5]) =>
              /\ Len(gateway') = 1
              /\ gateway'[1].outcome = "Solved"
        /\ (ret'.op = "save" /\ ret'.args[1]) =>
              /\ Len(history') = Len(history) + Len(calls)
              /\ \A i \in 1..Len(calls) :
                    LET h == history'[Len(history) + i]
                    IN /\ h.package_name = calls[i].name
                       /\ h.operation = (IF calls[i].op = "add_package"
                                         THEN INSTALL ELSE UNINSTALL)
        /\ DeployReturned =>
              /\ edits = <<>> /\ calls = <<>>
              /\ package = committed.package
              /\ files'.production.package = package
              /\ files'.production.history = history
      ]_vars

\* A deploy promoted a package row together with the INSTALL entry of the
\* call that added it.
C23_Witness ==
    /\ ret.op = "deploy" /\ ret.exc = "ok"
    /\ Len(files.production.package) = 1
    /\ Len(files.production.history) = 1
    /\ files.production.history[1].operation = INSTALL
    /\ files.production.history[1].package_name = files.production.package[1].name

\* C24 (session scope): the end of a session writes nothing to either store
\* file and the session opened next starts with an empty edit buffer, no open
\* transaction and the tables of its store file; add_package and
\* remove_package leave both store files as they were and save writes the
\* session's tables to the file of its store, so a session opened afterwards
\* sees the changes that were saved and none of those that were not.
C24_SessionScope ==
    [][ /\ ret'.op = "__enter__" =>
              /\ files' = files
              /\ edits' = <<>>
              /\ ~in_transaction'
              /\ store' = files[Connected']
        /\ IsMutatingCall(ret') => files' = files
        /\ ret'.op = "save" =>
              /\ files'[Connected] = store'
              /\ \A f \in StoreNames \ {Connected} : files'[f] = files[f]
      ]_vars

\* A staging session opened after an earlier one sees the package row that
\* session saved, with an empty edit buffer.
C24_Witness ==
    /\ ret.op = "__enter__" /\ ret.args = <<FALSE>>
    /\ Len(package) = 1
    /\ package = files.staging.package
    /\ files.production.package = <<>>
    /\ edits = <<>>
    /\ ~in_transaction

\* ------------------------------------------------------------------------
\* What the error-handling claims speak about
\* ------------------------------------------------------------------------

\* The step is a get_package_list call that got as far as its list.
ListComputed ==
    /\ ret'.op = "get_package_list"
    /\ ret'.exc \notin {"InvalidContext", "OperationalError"}

\* The de-duplicated list of the arguments of the get_package_list call r.
ListOfCall(r) == get_package_list(context, package, r.args[1], r.args[2], r.args[3])

\* C25 (validation of a listing): a get_package_list call with validate=true
\* on a list the store can compute consults the gateway once; when the
\* gateway rejects, the call fails with the error of a failed validation
\* whose text ends with the gateway's diagnostic (None when the gateway gave
\* none), when it accepts the call returns the list; with validate=false the
\* gateway is not consulted and the call returns the list.
C25_ListValidation ==
    [][ ListComputed =>
          IF ret'.args[4]
          THEN /\ Len(gateway') = 1
               /\ IF gateway'[1].outcome = "Solved"
                  THEN ret'.exc = "ok" /\ ret'.value = ListOfCall(ret')
                  ELSE /\ ret'.exc = "NotValidated"
                       /\ ret'.value = "Package list can't be validated: "
                             \o (IF gateway'[1].outcome = "RezError"
                                 THEN "RezError" ELSE "None")
          ELSE /\ gateway' = <<>>
               /\ ret'.exc = "ok" /\ ret'.value = ListOfCall(ret')
      ]_vars

\* A validated listing of a store with two package rows was rejected with
\* the resolver's RezError as diagnostic.
C25_Witness ==
    /\ ret.op = "get_package_list" /\ ret.args[4]
    /\ ret.exc = "NotValidated"
    /\ ret.value = "Package list can't be validated: RezError"
    /\ Len(gateway) = 1 /\ gateway[1].outcome = "RezError"
    /\ Len(gateway[1].packages) = 2

\* C26 as stated (gateway conversion): validate_context always returns; it
\* returns (true, no diagnostic) exactly when the resolver solves the set and
\* (false, diagnostic) for every other outcome, an exception of any class
\* included; the store, the store files and the pending buffer stay as they
\* are.
C26_GatewayConverts ==
    [][ ret'.op = "validate_context" =>
          /\ ret'.exc = "ok"
          /\ (ret'.value = <<TRUE, None>>) <=> (gateway'[1].outcome = "Solved")
          /\ gateway'[1].outcome # "Solved" => ret'.value[1] = FALSE
          /\ store' = store /\ files' = files /\ edits' = edits
      ]_vars

\* C29 as stated (validated sequence): when get_package_list validates, the
\* sequence it submits to the gateway is the de-duplicated sequence it
\* returns with validate=false for the same arguments.
C29_SubmitsResultingSequence ==
    [][ (ListComputed /\ ret'.args[4]) =>
          /\ Len(gateway') = 1
          /\ gateway'[1].packages = ListOfCall(ret')
      ]_vars

\* The step is an add_package or remove_package call whose validation failed.
FailedValidation ==
    /\ IsMutatingCall(ret')
    /\ gateway' # <<>>
    /\ gateway'[1].outcome # "Solved"

\* C27 as stated (error kind of a failed validation): an add_package or
\* remove_package call whose validation failed ends with a ValueError, the
\* class the manage command catches.
C27_FailedValidationIsValueError ==
    [][ FailedValidation =>
          /\ exception_class(ret'.exc) = "ValueError"
          /\ exception_class(ret'.exc) \in ManageCatches
      ]_vars

\* C28 as stated (rejections name their check): every add_package or
\* remove_package call rejected on an initialized store ends with the
\* context-existence error, the package-existence error or the resolver's
\* diagnostic, whatever the outcome of the gateway.
C28_RejectionNamesCheck ==
    [][ ( /\ IsMutatingCall(ret')
          /\ ret'.exc \notin {"ok", "InvalidContext", "OperationalError"} )
        => ret'.exc \in {"UnknownContext", "UnknownPackage", "RezError"}
      ]_vars

\* C30 (order of remove_package's checks): on an initialized store a
\* remove_package call for a triple without context row fails with the
\* unknown-context error, one for a known triple without the exact package row
\* with the unknown-package error, and in both cases the gateway is not
\* consulted, validate or not; when both rows exist a validating call
\* consults the gateway exactly once.
C30_RemoveCheckOrder ==
    [][ (ret'.op = "remove_package" /\ tables /\ Len(ret'.args[1]) <= 3) =>
          LET a == ret'.args
              T == sanitize_context(a[1])
              known == ContextRowsOf(context, T) # {}
              present == \E i \in 1..Len(package) :
                            IsEntry(context, package[i], T, a[2], a[3], a[4])
          IN IF ~known
             THEN ret'.exc = "UnknownContext" /\ gateway' = <<>>
             ELSE IF ~present
             THEN ret'.exc = "UnknownPackage" /\ gateway' = <<>>
             ELSE Len(gateway') = (IF a[5] THEN 1 ELSE 0)
      ]_vars

\* A validating remove_package for the triple (proj, cat), which has a context
\* row but not the package, failed with the unknown-package error without a
\* call of the gateway.
C30_Witness ==
    /\ ret.op = "remove_package" /\ ret.exc = "UnknownPackage"
    /\ ret.args[1] = <<"proj", "cat">> /\ ret.args[5]
    /\ gateway = <<>>
    /\ ContextRowsOf(context, <<"proj", "cat", None>>) # {}

\* ------------------------------------------------------------------------
\* What the command claims speak about
\* ------------------------------------------------------------------------

\* The step is a library call of a run of the manage command.
ManageCalls(op) == command.name = "manage" /\ ret'.op = op

\* The calls that returned in the run so far are the removals of the first n
\* packages of --uninstall, in order.
UninstallsDone(n) ==
    /\ Len(calls) >= n
    /\ \A j \in 1..n : /\ calls[j].op = "remove_package"
                       /\ calls[j].name = command.uninstall[j]

\* The calls that returned in the run are its whole batch: the removals of
\* --uninstall, then the additions of --install.
BatchDone ==
    /\ Len(calls) = Len(command.uninstall) + Len(command.install)
    /\ UninstallsDone(Len(command.uninstall))
    /\ \A j \in 1..Len(command.install) :
          /\ calls[Len(command.uninstall) + j].op = "add_package"
          /\ calls[Len(command.uninstall) + j].name = command.install[j]

\* The prompts of the uninstall and install blocks were approved or not shown.
BatchApproved ==
    /\ command.uninstall # <<>> =>
          (command.force \/ command.answers.uninstall \in {"y", "Y"})
    /\ command.install # <<>> =>
          (command.force \/ command.answers.install \in {"y", "Y"})

\* C31 (uninstall before install): in a run of the manage command no
\* add_package call has returned when remove_package is called, and when
\* add_package is called every package of --uninstall has been removed, in
\* the order of the command line.
C31_UninstallBeforeInstall ==
    [][ /\ ManageCalls("remove_package") =>
              \A j \in 1..Len(calls) : calls[j].op # "add_package"
        /\ ManageCalls("add_package") =>
              UninstallsDone(Len(command.uninstall))
      ]_vars

\* A run of manage removed pkgA and then added a package.
C31_Witness ==
    /\ command.name = "manage"
    /\ ret.op = "add_package" /\ ret.exc = "ok"
    /\ Len(calls) = 2
    /\ calls[1].op = "remove_package" /\ calls[1].name = "pkgA"
    /\ calls[2].op = "add_package"

\* The prompt of the deploy block was approved or not shown.
DeployApproved ==
    command.deploy => (command.force \/ command.answers.deploy \in {"y", "Y"})

\* C32 as stated (all-or-nothing batch): a run of the manage command saves
\* only when every remove_package and add_package of the command line
\* returned and no confirmation of the run is declined, the one of the deploy
\* block included; no other call of the run writes a store file.
C32_SaveOnlyIfNothingDeclined ==
    [][ /\ ManageCalls("save") =>
              (BatchDone /\ BatchApproved /\ DeployApproved)
        /\ (command.name = "manage"
              /\ ret'.op \notin {"save", "deploy", "initialize"}) =>
              files' = files
      ]_vars

\* C32 (all-or-nothing batch): a run of the manage command saves only when
\* every remove_package and add_package of the command line returned and the
\* confirmations of the uninstall and install blocks were approved, it
\* initializes only after an approved confirmation, and it deploys only
\* right after that save; no other call of the run writes a store file, and
\* the session opened next starts from the store file.  So after a failed
\* call or a declined initialize, uninstall or install confirmation the next
\* session sees the tables as they were before the run; a declined deploy
\* confirmation ends the run after the save.
C32_AllOrNothingBatch ==
    [][ /\ ManageCalls("save") => (BatchDone /\ BatchApproved)
        /\ ManageCalls("deploy") => ret.op = "save"
        /\ ManageCalls("initialize") =>
              command.answers.initialize \in {"y", "Y"}
        /\ (command.name = "manage"
              /\ ret'.op \notin {"save", "deploy", "initialize"}) =>
              files' = files
        /\ ret'.op = "__enter__" =>
              /\ files' = files
              /\ store' = files[Connected']
      ]_vars

\* A run of manage removed pkgA and then had its add_package fail: the run
\* ends there, with the removal in the session and pkgA still in the file.
C32_Witness ==
    /\ command.name = "manage"
    /\ ret.op = "add_package" /\ ret.exc # "ok"
    /\ next_call = Return
    /\ Len(calls) = 1 /\ calls[1].op = "remove_package"
    /\ package = <<>>
    /\ Len(files.staging.package) = 1
    /\ files.staging.package[1].name = "pkgA"

\* C33 (deploy after save): in a run of the manage command deploy is called
\* right after a save that flushed to the history table; at that moment the
\* pending buffer is empty, no transaction is open, the tables are the
\* committed ones, the session is a staging session, and the force flag is
\* set or the answer to the deploy prompt is exactly y or Y.
C33_DeployAfterSave ==
    [][ ManageCalls("deploy") =>
          /\ ret.op = "save" /\ ret.args[1] /\ ret.exc = "ok"
          /\ edits = <<>>
          /\ ~in_transaction
          /\ store = committed /\ files.staging = store
          /\ ~load_production
          /\ command.deploy
          /\ command.force \/ command.answers.deploy \in {"y", "Y"}
      ]_vars

\* A run of manage without the force flag deployed a package row after the
\* answer Y.
C33_Witness ==
    /\ command.name = "manage" /\ ~command.force
    /\ command.answers.deploy = "Y"
    /\ ret.op = "deploy" /\ ret.exc = "ok"
    /\ files.production.package # <<>>
    /\ files.production = files.staging

\* ------------------------------------------------------------------------
\* What the data-model claims speak about
\* ------------------------------------------------------------------------

\* The context rows of the table ctx respect the hierarchy.
RespectsHierarchy(ctx) ==
    \A i \in 1..Len(ctx) :
        /\ ctx[i].category # None => ctx[i].project # None
        /\ ctx[i].entity # None => ctx[i].category # None

\* C34 (context hierarchy): every context row of the session and of the
\* staging file has a project when it has a category and a category when it
\* has an entity, after any sequence of insert_context and add_package.
C34_HierarchyRespected ==
    /\ RespectsHierarchy(context)
    /\ RespectsHierarchy(files.staging.context)

\* C35 (added package is visible): after add_package(T, name, step, software)
\* returned, get_package_list(T, step, software, validate=false) contains
\* name, whatever the step and the software, the empty string included.
C35_AddedPackageVisible ==
    (ret.op = "add_package" /\ ret.exc = "ok") =>
        InSeq(ret.args[2],
              get_package_list(context, package, ret.args[1], ret.args[3],
                               ret.args[4]))

\* The set of the names of a list.
NamesOf(list) == {list[i] : i \in 1..Len(list)}

\* C36 (validated set is the resulting set): after a validating add_package
\* or remove_package on (T, step, software) returned, the names it submitted
\* to the gateway are, as a set, the names of
\* get_package_list(T, step, software, validate=false) on the tables the
\* call left.
C36_ValidatedIsResulting ==
    (/\ ret.op \in {"add_package", "remove_package"}
     /\ ret.exc = "ok"
     /\ ret.args[5]) =>
        /\ Len(gateway) = 1
        /\ NamesOf(gateway[1].packages) =
              NamesOf(get_package_list(context, package, ret.args[1],
                                       ret.args[3], ret.args[4]))

\* No two rows of the package table pkg share (context_id, name, step,
\* software).
UniqueEntries(pkg) ==
    \A i, j \in 1..Len(pkg) :
        (/\ pkg[i].context_id = pkg[j].context_id
         /\ pkg[i].name = pkg[j].name
         /\ pkg[i].step = pkg[j].step
         /\ pkg[i].software = pkg[j].software) => i = j

\* C37 (the 4-tuple identifies an entry): no two package rows of the session
\* or of the staging file share (context_id, name, step, software), and
\* after remove_package(T, name, step, software) returned no row with that
\* 4-tuple remains.
C37_EntryIdentifiedByTuple ==
    /\ UniqueEntries(package)
    /\ UniqueEntries(files.staging.package)
    /\ (ret.op = "remove_package" /\ ret.exc = "ok") =>
          \A i \in 1..Len(package) :
              ~(/\ package[i].context_id =
                      get_context_row_id(context, ret.args[1])
                /\ package[i].name = ret.args[2]
                /\ package[i].step = ret.args[3]
                /\ package[i].software = ret.args[4])

\* C38 (deploy frame): a call of deploy, whether it returns, raises or waits
\* on the open transaction, leaves the staging file, the session's context,
\* package and history tables, the committed tables, the open transaction
\* and the pending edit buffer as they were; at most the production file and
\* the history folder change.
C38_DeployFrame ==
    [][ ret'.op = "deploy" =>
          /\ files'.staging = files.staging
          /\ context' = context /\ package' = package /\ history' = history
          /\ tables' = tables
          /\ committed' = committed
          /\ in_transaction' = in_transaction
          /\ edits' = edits
          /\ load_production' = load_production
          /\ keep_history' = keep_history
      ]_vars

\* A staging session with a saved package row and its history entry has
\* deployed: the production file is the staging file, which still holds the
\* row and the entry.
C38_Witness ==
    /\ ret.op = "deploy" /\ ret.exc = "ok"
    /\ ~load_production
    /\ files.production = files.staging
    /\ files.staging.package # <<>>
    /\ files.staging.history # <<>>
    /\ history = files.staging.history

\* The operations that only read.
ReadOperations ==
    {"get_package_list", "get_context_row_id", "sanitize_context", "exists"}

\* C39 (reads change nothing): a call of get_package_list,
\* get_context_row_id, sanitize_context or exists, whether it returns or
\* raises, leaves the context, package and history tables, the pending edit
\* buffer, the committed tables and both store files as they were; a run of
\* the resolve command makes only such calls after opening its session, so
\* it never calls save or deploy and never changes a store file.
C39_ReadsChangeNothing ==
    [][ /\ ret'.op \in ReadOperations =>
              /\ context' = context /\ package' = package
              /\ history' = history /\ tables' = tables
              /\ edits' = edits
              /\ committed' = committed
              /\ in_transaction' = in_transaction
              /\ files' = files
        /\ command'.name = "resolve" =>
              /\ ret'.op \in ReadOperations \cup {"__enter__"}
              /\ files' = files
      ]_vars

\* A run of resolve on the production store had its listing refused by the
\* resolver while the staging store holds a package row.
C39_Witness ==
    /\ command.name = "resolve" /\ ~command.staging
    /\ ret.op = "get_package_list" /\ ret.exc # "ok"
    /\ load_production
    /\ files.production.package # <<>>
    /\ files.staging.package # <<>>
====
